---- MODULE Spec2Model ----
(***************************************************************************)
(* A model of the process-identity core of psutil/__init__.py:             *)
(* Process handles (pid + cached creation time), is_running(), the         *)
(* operations guarded by _assert_pid_not_reused, the process_iter()        *)
(* registry, wait_procs(), the CPU utilization calls and get_children().   *)
(*                                                                         *)
(* The platform backend (_psplatform) is the environment.  It is modelled  *)
(* as a table of pids.  Each pid carries the instance that currently owns  *)
(* it: whether it runs, its creation time and whether the backend answers  *)
(* AccessDenied when the creation time is read (a property of the          *)
(* instance, fixed when it starts).  A pid is reused by spawning a new     *)
(* instance on it once the previous one has exited; the new instance gets  *)
(* a strictly later creation time (pid + creation time identify an         *)
(* instance, as the comments of Process.__eq__ assume).                    *)
(*                                                                         *)
(* Fourteen specifications share the variables:                            *)
(*   Spec      a handle built by hand, is_running(), create_time and the   *)
(*             guarded calls                                               *)
(*   SpecEq    several handles for one pid, compared with one another      *)
(*   SpecIter  the process_iter() registry                                 *)
(*   SpecPair  two process_iter() generators advanced in turn              *)
(*   SpecWait  wait_procs()                                                *)
(*   SpecReap  wait_procs() with a callback, while pids are reused         *)
(*   SpecCpu   Process.get_cpu_percent() next to cpu_percent()             *)
(*   SpecCpuBoth  cpu_percent() and cpu_times_percent() side by side       *)
(*   SpecCpuQuirk  the utilization calls while counters may regress        *)
(*   SpecKids  get_children()                                              *)
(*   SpecKin   get_children(recursive=False)                               *)
(*   SpecMap   get_children() on any parent map                            *)
(*   SpecParent  Process.parent                                            *)
(*   SpecDict  Process.as_dict()                                           *)
(***************************************************************************)
EXTENDS Integers, Sequences, FiniteSets, Bags, TLC

\* ---------------------------------------------------------------- bounds
\* Spec: pids, processes started in all, handles built by hand.
NPids == 1
MaxSpawns == 2
MaxCallHandles == 1
\* SpecEq: handles built by hand (pids and processes as in Spec).
MaxHandles == 2
\* SpecIter: pids and processes started in all.
NIterPids == 2
IterMaxSpawns == 2
\* SpecWait: input handles, and the largest deadline in time units.
NProcs == 3
MaxTimeoutUnits == 1
\* SpecReap: input handles, and pids reused in all while wait_procs runs.
NReapProcs == 2
MaxReuses == 1
\* SpecCpu, SpecCpuBoth: CPUs, clock ticks counted in all, utilization
\* calls in all.
NCpus == 1
MaxCpuTicks == 2
MaxCpuCalls == 2
\* SpecDict: the longest list of attributes passed to as_dict.
MaxAttrs == 2
\* SpecKids: pids and processes started in all.
NKidPids == 3
KidsMaxSpawns == 4
\* SpecKin, SpecParent: pids and processes started in all.
NKinPids == 2
KinMaxSpawns == 3
\* SpecMap: pids.
NMapPids == 3
\* SpecPair: pids.
NPairPids == 2

\* `None` of the source: a creation time or an exit code that is not there.
None_ == -1

\* A handle that has no `retcode` attribute (yet).
Unset == -2

\* The CPU times at the moment the module is imported: the counters are
\* read from there on.
ZeroTimes == [user |-> 0, system |-> 0, idle |-> 0]

\* `None` where the (user, system) times of a process could stand.
NoTimes == [user |-> None_, system |-> None_]

\* What the backend records as the parent of a process: its pid (0: none
\* of the pids modelled, such as init).  ginst is not in the record: it
\* names the instance that owned that pid when the child was started, so
\* that properties can tell the parent from a later owner of its pid.
NoParent == [pid |-> 0, ginst |-> 0]

\* timeout=None
NoTimeout == [set |-> FALSE, v |-> 0]

VARIABLES
    running,    \* backend: running[p], pid p is in get_pids()
    inst,       \* backend: number of instances pid p has had so far
    ctime,      \* backend: creation time of the latest instance of pid p
    denied,     \* backend: get_create_time() of pid p raises AccessDenied
    now,        \* backend: the clock creation times are taken from
    posix,      \* os.name == 'posix'
    heap,       \* every Process object constructed so far, by address
    ret,        \* outcome of the call made by the last step, if any
    pending,    \* a guarded call that passed its check: <<handle, shape>>
    _pmap,      \* process_iter: the registry, pid -> handle (0: no entry)
    it_pc,      \* process_iter: where the generator stands
    it_items,   \* process_iter: the (pid, proc) pairs still to visit
    it_cur,     \* process_iter: the pair whose cached proc is not running
    it_live,    \* process_iter: the pids get_pids() returned to this call
    it_evicted, \* process_iter: the pids this call removed at its start
    it_out,     \* process_iter: the handles this call has yielded so far
    parked,     \* process_iter: the locals of a second, suspended generator
    it_dirty,   \* a process started or exited since the latest call began
    it_prev,    \* what the latest complete, undisturbed call yielded
    w_pc,       \* wait_procs: where the call stands
    timeout,    \* wait_procs: the local `timeout` ([set |-> FALSE]: None)
    timeout0,   \* wait_procs: the `timeout` argument as passed
    deadline,   \* wait_procs: the local `deadline`
    timer,      \* the monotonic clock, in ticks
    gone,       \* wait_procs: the local set `gone` (handles)
    alive,      \* wait_procs: the local set `alive` (handles)
    todo,       \* wait_procs: what `for proc in alive` has yet to visit
    cur,        \* wait_procs: the handle whose wait() is in progress
    left,       \* wait_procs: ticks left of the wait in progress
    retcode,    \* the `retcode` attribute of each handle
    early,      \* early[p]: pid p exited strictly before the deadline
    callback,   \* wait_procs: a callback was passed
    calls,      \* what each call of the callback found, by handle
    swept,      \* wait_procs: a wait was made in the main loop
    lastwaits,  \* wait_procs: the waits of the last attempt, by handle
    allocated,  \* wait_procs: the timeouts handed out in this sweep, summed
    ppid,       \* backend: the parent recorded for pid p, see NoParent
    sys_per_cpu_times,      \* backend: the time each CPU spent in each mode
    proc_cpu_times,         \* backend: the CPU time charged to each pid
    _last_cpu_times,        \* cpu_percent: the system-wide baseline
    _last_per_cpu_times,    \* cpu_percent: the per-CPU baseline
    _last_cpu_times_2,      \* cpu_times_percent: the system-wide baseline
    _last_per_cpu_times_2,  \* cpu_times_percent: the per-CPU baseline
    c_call,     \* the locals of the utilization call in progress
    called      \* the utilization calls completed since import (a bag)

backend == <<running, inst, ctime, denied, now>>

ivars == <<_pmap, it_pc, it_items, it_cur, it_live, it_evicted, it_out,
           parked>>

\* What is remembered of the enumerations for the properties' sake.
ighost == <<it_dirty, it_prev>>

\* wait_procs' own state (timer and early belong to the environment).
wvars == <<w_pc, timeout, timeout0, deadline, gone, alive, todo, cur, left,
           retcode, callback, calls, swept, lastwaits, allocated>>

\* What is remembered of a wait_procs call for the properties' sake, and
\* its callback.
wlog == <<callback, calls, swept, lastwaits, allocated>>

\* The CPU accounting: the backend's counters, the module's baselines and
\* the call in progress.
cvars == <<sys_per_cpu_times, proc_cpu_times, _last_cpu_times,
           _last_per_cpu_times, _last_cpu_times_2, _last_per_cpu_times_2,
           c_call, called>>

\* What the operations on the identity of processes leave alone.
rest == <<ppid, cvars>>

vars == <<running, inst, ctime, denied, now, posix, heap, ret, pending,
          _pmap, it_pc, it_items, it_cur, it_live, it_evicted, it_out,
          parked, it_dirty, it_prev,
          w_pc, timeout, timeout0, deadline, timer, gone, alive, todo, cur,
          left, retcode, early, callback, calls, swept, lastwaits,
          allocated, ppid, sys_per_cpu_times, proc_cpu_times,
          _last_cpu_times, _last_per_cpu_times, _last_cpu_times_2,
          _last_per_cpu_times_2, c_call, called>>

Pids == DOMAIN running

\* No object: what stands where a Process object could.
NoHandle ==
    [pid |-> 0, create_time |-> None_, gone |-> FALSE,
     _last_sys_cpu_times |-> None_, _last_proc_cpu_times |-> NoTimes,
     ginst |-> 0, pid0 |-> 0, ct0 |-> None_]

\* A generator of process_iter() that is not running: not advanced yet,
\* or exhausted.
NoGen ==
    [pc |-> "idle", items |-> <<>>, cur |-> <<0, 0, NoHandle>>,
     live |-> {}, evicted |-> {}, out |-> <<>>]

\* No complete, undisturbed enumeration to compare the next one with.
NoPrev == [ok |-> FALSE, out |-> <<>>]

\* No call was made by the last step.
NoRet ==
    [op |-> "none", h |-> 0, val |-> FALSE, exc |-> "none",
     backend |-> FALSE, target |-> 0, pid |-> 0, stale |-> 0,
     was |-> NoHandle, live |-> {}, evicted |-> {}, out |-> <<>>,
     static |-> FALSE, prev |-> NoPrev, percpu |-> FALSE,
     blocking |-> FALSE, first |-> FALSE, st2 |-> None_, pct |-> <<>>,
     fpct |-> <<>>, recursive |-> FALSE, children |-> <<>>,
     timeout |-> 0, retcode |-> Unset, running |-> FALSE,
     attrs |-> {}, ad_value |-> None_, outs |-> <<>>, retdict |-> <<>>]

NoPending == <<0, "none">>

Handles == 1..Len(heap)

\* ------------------------------------------------------ Process handles

\* Process.__init__: the object built for a pid the backend knows.
\* create_time stays out of __dict__ (None_) when the backend denies it.
\* ginst, pid0 and ct0 are not fields of the object: they name the
\* instance the handle was constructed for, and the pid and the creation
\* time it held when __init__ returned, so that properties can speak about
\* them.
NewProcess(pid) ==
    [pid |-> pid,
     create_time |-> IF denied[pid] THEN None_ ELSE ctime[pid],
     gone |-> FALSE,
     _last_sys_cpu_times |-> None_,
     _last_proc_cpu_times |-> NoTimes,
     ginst |-> inst[pid],
     pid0 |-> pid,
     ct0 |-> IF denied[pid] THEN None_ ELSE ctime[pid]]

\* Faulty variant of __init__: AccessDenied on the creation time is let
\* through like NoSuchProcess.
InitRaisesOnDenied(pid) == ~running[pid] \/ denied[pid]

\* Process.__init__ raises NoSuchProcess: get_create_time() finds no pid.
InitRaisesNSP(pid) == ~running[pid]

\* Faulty variant of __eq__: the pid alone is compared.
ProcessEqPidOnly(h1, h2) == h1.pid = h2.pid

\* Faulty variant of __eq__: every attribute is compared, _gone included.
ProcessEqAllFields(h1, h2) ==
    <<h1.pid, h1.create_time, h1.gone>> = <<h2.pid, h2.create_time, h2.gone>>

\* Process.__eq__
ProcessEq(h1, h2) ==
    <<h1.pid, h1.create_time>> = <<h2.pid, h2.create_time>>

\* Faulty variant of is_running: the pid is looked up, identity is not.
IsRunningValPidOnly(h) == ~h.gone /\ ~InitRaisesNSP(h.pid)

\* Process.is_running: the value returned.
IsRunningVal(h) ==
    IF h.gone THEN FALSE
    ELSE IF InitRaisesNSP(h.pid) THEN FALSE
    ELSE ProcessEq(h, NewProcess(h.pid))

\* `if self._gone: return False` is passed: is_running goes on to ask the
\* backend about the pid.
IsRunningAsks(h) == ~h.gone

\* Faulty variant of the update below: _gone is set to what the backend
\* says of the pid at this call.
IsRunningUpdResets(h) == [h EXCEPT !.gone = InitRaisesNSP(h.pid)]

\* Process.is_running: the handle afterwards (_gone set on NoSuchProcess).
IsRunningUpd(h) ==
    IF ~h.gone /\ InitRaisesNSP(h.pid) THEN [h EXCEPT !.gone = TRUE] ELSE h

\* The instance a handle was constructed for has exited.
Exited(h) == ~running[h.pid] \/ inst[h.pid] # h.ginst

\* -------------------------------------------------------------- backend

RECURSIVE SumInst(_)
SumInst(S) ==
    IF S = {} THEN 0
    ELSE LET p == CHOOSE q \in S : TRUE IN inst[p] + SumInst(S \ {p})

\* Processes started so far, on all pids.
Spawned == SumInst(Pids)

\* A new process starts on a free pid (the first one, or a reuse), at the
\* current clock value or one tick later; at most `most` are ever started.
Spawn(p, most) ==
    /\ ~running[p]
    /\ Spawned < most
    /\ \E t \in {now, now + 1}, d \in BOOLEAN :
          /\ inst[p] > 0 => t > ctime[p]
          /\ now' = t
          /\ ctime' = [ctime EXCEPT ![p] = t]
          /\ denied' = [denied EXCEPT ![p] = d]
    /\ running' = [running EXCEPT ![p] = TRUE]
    /\ inst' = [inst EXCEPT ![p] = @ + 1]
    /\ it_dirty' = TRUE
    /\ it_prev' = NoPrev
    /\ ret' = NoRet
    /\ UNCHANGED <<posix, rest, heap, pending, ivars, wvars, timer, early>>

\* The present moment lies strictly before the deadline of wait_procs
\* (before the call, or during and after a call whose deadline is ahead).
BeforeDeadline ==
    w_pc = "idle" \/ (timeout0.set /\ timer < deadline)

\* A running process exits.
Exit(p) ==
    /\ running[p]
    /\ running' = [running EXCEPT ![p] = FALSE]
    /\ early' = [early EXCEPT ![p] = BeforeDeadline]
    /\ it_dirty' = TRUE
    /\ it_prev' = NoPrev
    /\ ret' = NoRet
    /\ UNCHANGED <<inst, ctime, denied, now, posix, rest, heap, pending, ivars,
                   wvars, timer>>

\* ------------------------------------------------------------ user calls

\* Process(pid); at most `most` handles are ever built.
Construct(p, most) ==
    /\ pending = NoPending
    /\ Len(heap) < most
    /\ IF InitRaisesNSP(p)
       THEN /\ ret' = [NoRet EXCEPT !.op = "Process", !.pid = p,
                                    !.exc = "NoSuchProcess"]
            /\ UNCHANGED heap
       ELSE /\ heap' = Append(heap, NewProcess(p))
            /\ ret' = [NoRet EXCEPT !.op = "Process", !.pid = p,
                                    !.h = Len(heap) + 1]
    /\ UNCHANGED <<backend, posix, rest, pending, ivars, ighost, wvars, timer, early>>

\* h.is_running()
IsRunning(i) ==
    /\ pending = NoPending
    /\ heap' = [heap EXCEPT ![i] = IsRunningUpd(heap[i])]
    /\ ret' = [NoRet EXCEPT !.op = "is_running", !.h = i,
                            !.pid = heap[i].pid,
                            !.backend = IsRunningAsks(heap[i]),
                            !.val = IsRunningVal(heap[i])]
    /\ UNCHANGED <<backend, posix, rest, pending, ivars, ighost, wvars, timer, early>>

\* _proc.get_create_time(): what the backend answers for a pid.
GetCreateTime(pid) ==
    IF ~running[pid] THEN "NoSuchProcess"
    ELSE IF denied[pid] THEN "AccessDenied"
    ELSE "ok"

\* cached_property on create_time: the handle after a read.  A value held
\* in __dict__ is returned as it is; otherwise the getter runs, and what it
\* returns is stored in __dict__.
CachedProperty(h) ==
    IF h.create_time = None_ /\ GetCreateTime(h.pid) = "ok"
    THEN [h EXCEPT !.create_time = ctime[h.pid]]
    ELSE h

\* h.create_time, read by the caller.
ReadCreateTime(i) ==
    /\ pending = NoPending
    /\ heap' = [heap EXCEPT ![i] = CachedProperty(heap[i])]
    /\ ret' = [NoRet EXCEPT
                 !.op = "create_time", !.h = i, !.pid = heap[i].pid,
                 !.exc = IF heap[i].create_time # None_ THEN "none"
                         ELSE IF GetCreateTime(heap[i].pid) = "ok" THEN "none"
                         ELSE GetCreateTime(heap[i].pid)]
    /\ UNCHANGED <<backend, posix, rest, pending, ivars, ighost, wvars, timer,
                   early>>

\* The methods wrapped by _assert_pid_not_reused (terminate is wrapped
\* through send_signal, which is all it calls).
GuardedOps ==
    {"parent", "get_children", "set_nice", "set_rlimit", "suspend",
     "resume", "send_signal", "terminate", "kill"}

\* What the body of a guarded method does once the wrapper let it through:
\*   "signal"  send_signal, terminate: os.kill() on POSIX
\*   "resend"  suspend, resume, kill: self.send_signal() on POSIX, which
\*             is wrapped too; a backend call elsewhere
\*   "direct"  the others: backend calls
Shape(op) ==
    IF op \in {"send_signal", "terminate"} THEN "signal"
    ELSE IF op \in {"suspend", "resume", "kill"} THEN "resend"
    ELSE "direct"

\* The bodies there are to run.
Shapes == {Shape(op) : op \in GuardedOps}

\* Faulty variant of the wrapper: it trusts the handle's _gone flag.
GuardPassesUnlessGone(h) == ~h.gone

\* _assert_pid_not_reused: the wrapper lets the call through.
GuardPasses(h) == IsRunningVal(h)

\* A guarded method is called: the wrapper runs is_running() first and
\* raises NoSuchProcess when it is false; only otherwise is the method's
\* body (of the given shape) to run.
GuardedCall(i, shape) ==
    /\ pending = NoPending
    /\ heap' = [heap EXCEPT ![i] = IsRunningUpd(heap[i])]
    /\ IF GuardPasses(heap[i])
       THEN /\ pending' = <<i, shape>>
            /\ ret' = [NoRet EXCEPT !.op = "call", !.h = i,
                                    !.pid = heap[i].pid, !.val = TRUE]
       ELSE /\ pending' = NoPending
            /\ ret' = [NoRet EXCEPT !.op = "call", !.h = i,
                                    !.pid = heap[i].pid,
                                    !.exc = "NoSuchProcess"]
    /\ UNCHANGED <<backend, posix, rest, ivars, ighost, wvars, timer, early>>

\* The body of a guarded method, reached after the wrapper's check; the
\* backend may have changed in between.  os.kill() on POSIX answers ESRCH
\* for a pid that is not there (send_signal then sets _gone and raises
\* NoSuchProcess); otherwise the operation reaches whichever instance
\* owns the pid now.
Body(i, shape) ==
    LET h == heap[i]
        recheck == posix /\ shape = "resend"
        oskill == posix /\ shape \in {"signal", "resend"}
    IN  /\ pending = <<i, shape>>
        /\ pending' = NoPending
        /\ IF recheck /\ ~GuardPasses(h)
           THEN /\ heap' = [heap EXCEPT ![i] = IsRunningUpd(h)]
                /\ ret' = [NoRet EXCEPT !.op = "body", !.h = i,
                                        !.pid = h.pid,
                                        !.exc = "NoSuchProcess"]
           ELSE IF oskill /\ ~running[h.pid]
           THEN /\ heap' = [heap EXCEPT ![i].gone = TRUE]
                /\ ret' = [NoRet EXCEPT !.op = "body", !.h = i,
                                        !.pid = h.pid,
                                        !.exc = "NoSuchProcess",
                                        !.backend = TRUE]
           ELSE /\ heap' = heap
                /\ ret' = [NoRet EXCEPT !.op = "body", !.h = i,
                                        !.pid = h.pid, !.backend = TRUE,
                                        !.target = IF running[h.pid]
                                                   THEN inst[h.pid] ELSE 0]
        /\ UNCHANGED <<backend, posix, rest, ivars, ighost, wvars, timer, early>>

\* ---------------------------------------------------------- process_iter

RECURSIVE SortedPids(_)
\* sorted(): the pids of S in ascending order.
SortedPids(S) ==
    IF S = {} THEN <<>>
    ELSE LET m == CHOOSE x \in S : \A y \in S : x <= y
         IN  <<m>> \o SortedPids(S \ {m})

\* a = set(get_pids())
LivePids == {p \in Pids : running[p]}

\* b = set(_pmap.keys())
CachedPids == {p \in Pids : _pmap[p] # 0}

\* new_pids = a - b
NewPids(a, b) == a \ b

\* Faulty variant of gone_pids: nothing is ever found gone.
GonePidsNone(a, b) == {}

\* gone_pids = b - a
GonePids(a, b) == b \ a

\* Faulty variant of the eviction: the whole registry is emptied.
EvictAll(pm, gonePids) == [p \in DOMAIN pm |-> 0]

\* for pid in gone_pids: remove(pid)
Evict(pm, gonePids) == [p \in DOMAIN pm |-> IF p \in gonePids THEN 0 ELSE pm[p]]

\* Faulty variant of the list to visit: the two lists are concatenated,
\* each in ascending order, and not sorted together.
ItemsNewLast(pm, newPids) ==
    LET old == SortedPids({p \in DOMAIN pm : pm[p] # 0})
        new == SortedPids(newPids \ {p \in DOMAIN pm : pm[p] # 0})
    IN  [k \in 1..Len(old) |-> <<old[k], pm[old[k]]>>]
        \o [k \in 1..Len(new) |-> <<new[k], 0>>]

\* sorted(list(_pmap.items()) + list(dict.fromkeys(new_pids).items())):
\* the cached handle of each pid left in the registry, None (0) for a new
\* pid, by ascending pid.
Items(pm, newPids) ==
    LET pids == SortedPids({p \in DOMAIN pm : pm[p] # 0} \cup newPids)
    IN  [k \in 1..Len(pids) |-> <<pids[k], pm[pids[k]]>>]

\* The generator runs up to its loop: the live pids are fetched, the
\* vanished ones evicted, the list to visit is built.
IterStart ==
    /\ it_pc = "idle"
    /\ LET a == LivePids
           b == CachedPids
           pm == Evict(_pmap, GonePids(a, b))
       IN  /\ _pmap' = pm
           /\ it_items' = Items(pm, NewPids(a, b))
           /\ it_live' = a
           /\ it_evicted' = GonePids(a, b)
    /\ it_pc' = "run"
    /\ it_cur' = <<0, 0, NoHandle>>
    /\ it_out' = <<>>
    /\ it_dirty' = FALSE
    /\ ret' = NoRet
    /\ UNCHANGED <<backend, posix, rest, heap, pending, it_prev, parked,
                   wvars, timer, early>>

\* Faulty variant of remove(pid): `del _pmap[pid]`, a KeyError when the
\* pid is not in the registry.
RemoveDel(pm, pid) == IF pm[pid] = 0 THEN "KeyError" ELSE "none"

\* remove(pid): what _pmap.pop(pid, None) raises.  With its default the
\* call raises nothing, whether the pid is in the registry or not.
RemoveExc(pm, pid) == "none"

\* Faulty variant of add(pid): the cached object, when there is one, is
\* refreshed in place and yielded again.
AddRefresh(pid, stale, was) ==
    IF InitRaisesNSP(pid)
    THEN /\ _pmap' = [_pmap EXCEPT ![pid] = 0]
         /\ heap' = heap
         /\ it_out' = it_out
         /\ ret' = [NoRet EXCEPT !.op = "skip", !.pid = pid,
                                 !.stale = stale, !.was = was]
    ELSE IF stale # 0
    THEN /\ heap' = [heap EXCEPT ![stale] = NewProcess(pid)]
         /\ _pmap' = [_pmap EXCEPT ![pid] = stale]
         /\ it_out' = Append(it_out, stale)
         /\ ret' = [NoRet EXCEPT !.op = "yield", !.pid = pid,
                                 !.h = stale, !.val = TRUE,
                                 !.stale = stale, !.was = was]
    ELSE /\ heap' = Append(heap, NewProcess(pid))
         /\ _pmap' = [_pmap EXCEPT ![pid] = Len(heap) + 1]
         /\ it_out' = Append(it_out, Len(heap) + 1)
         /\ ret' = [NoRet EXCEPT !.op = "yield", !.pid = pid,
                                 !.h = Len(heap) + 1, !.val = TRUE,
                                 !.stale = stale, !.was = was]

\* Faulty variant of add(pid): NoSuchProcess is caught, the pid is not
\* removed.
AddKeepsEntry(pid, stale, was) ==
    IF InitRaisesNSP(pid)
    THEN /\ _pmap' = _pmap
         /\ heap' = heap
         /\ it_out' = it_out
         /\ ret' = [NoRet EXCEPT !.op = "skip", !.pid = pid,
                                 !.stale = stale, !.was = was]
    ELSE /\ heap' = Append(heap, NewProcess(pid))
         /\ _pmap' = [_pmap EXCEPT ![pid] = Len(heap) + 1]
         /\ it_out' = Append(it_out, Len(heap) + 1)
         /\ ret' = [NoRet EXCEPT !.op = "yield", !.pid = pid,
                                 !.h = Len(heap) + 1, !.val = TRUE,
                                 !.stale = stale, !.was = was]

\* Faulty variant of add(pid): AccessDenied on the creation time leaves
\* Process(pid), and the handler yields proc as the loop holds it (None
\* for a new pid).
AddDeniedYieldsProc(pid, stale, was) ==
    IF InitRaisesNSP(pid)
    THEN /\ _pmap' = [_pmap EXCEPT ![pid] = 0]
         /\ heap' = heap
         /\ it_out' = it_out
         /\ ret' = [NoRet EXCEPT !.op = "skip", !.pid = pid,
                                 !.stale = stale, !.was = was]
    ELSE IF GetCreateTime(pid) = "AccessDenied"
    THEN /\ _pmap' = _pmap
         /\ heap' = heap
         /\ it_out' = Append(it_out, stale)
         /\ ret' = [NoRet EXCEPT !.op = "yield", !.pid = pid,
                                 !.h = stale, !.val = TRUE,
                                 !.stale = stale, !.was = was]
    ELSE /\ heap' = Append(heap, NewProcess(pid))
         /\ _pmap' = [_pmap EXCEPT ![pid] = Len(heap) + 1]
         /\ it_out' = Append(it_out, Len(heap) + 1)
         /\ ret' = [NoRet EXCEPT !.op = "yield", !.pid = pid,
                                 !.h = Len(heap) + 1, !.val = TRUE,
                                 !.stale = stale, !.was = was]

\* add(pid) inside the try: a fresh Process is registered and yielded, or
\* NoSuchProcess is caught and the pid removed.
Add(pid, stale, was) ==
    IF InitRaisesNSP(pid)
    THEN /\ _pmap' = [_pmap EXCEPT ![pid] = 0]
         /\ heap' = heap
         /\ it_out' = it_out
         /\ ret' = [NoRet EXCEPT !.op = "skip", !.pid = pid,
                                 !.exc = RemoveExc(_pmap, pid),
                                 !.stale = stale, !.was = was]
    ELSE /\ heap' = Append(heap, NewProcess(pid))
         /\ _pmap' = [_pmap EXCEPT ![pid] = Len(heap) + 1]
         /\ it_out' = Append(it_out, Len(heap) + 1)
         /\ ret' = [NoRet EXCEPT !.op = "yield", !.pid = pid,
                                 !.h = Len(heap) + 1, !.val = TRUE,
                                 !.stale = stale, !.was = was]

\* One turn of the loop up to its yield, or up to the second backend
\* query when the cached handle turns out not to be running.
IterStep ==
    /\ it_pc = "run"
    /\ it_items # <<>>
    /\ LET pid == Head(it_items)[1]
           proc == Head(it_items)[2]
       IN  IF proc = 0
           THEN /\ Add(pid, 0, NoHandle)
                /\ it_items' = Tail(it_items)
                /\ UNCHANGED <<it_pc, it_cur>>
           ELSE IF IsRunningVal(heap[proc])
           THEN /\ ret' = [NoRet EXCEPT !.op = "yield", !.pid = pid,
                                        !.h = proc, !.stale = proc,
                                        !.was = heap[proc]]
                /\ it_out' = Append(it_out, proc)
                /\ it_items' = Tail(it_items)
                /\ UNCHANGED <<heap, _pmap, it_pc, it_cur>>
           ELSE /\ heap' = [heap EXCEPT ![proc] = IsRunningUpd(heap[proc])]
                /\ it_pc' = "add"
                /\ it_cur' = <<pid, proc, heap[proc]>>
                /\ ret' = NoRet
                /\ UNCHANGED <<_pmap, it_items, it_out>>
    /\ UNCHANGED <<backend, posix, rest, pending, it_live, it_evicted, parked,
                   ighost, wvars, timer, early>>

\* The else branch: add(pid) for a pid whose cached handle is stale.
IterAdd ==
    /\ it_pc = "add"
    /\ Add(it_cur[1], it_cur[2], it_cur[3])
    /\ it_items' = Tail(it_items)
    /\ it_pc' = "run"
    /\ it_cur' = <<0, 0, NoHandle>>
    /\ UNCHANGED <<backend, posix, rest, pending, it_live, it_evicted, parked,
                   ighost, wvars, timer, early>>

\* The loop is over: the generator is exhausted.  What the call fetched
\* and evicted at its start is reported with its completion.
IterEnd ==
    /\ it_pc = "run"
    /\ it_items = <<>>
    /\ it_pc' = "idle"
    /\ ret' = [NoRet EXCEPT !.op = "end", !.live = it_live,
                            !.evicted = it_evicted, !.out = it_out,
                            !.static = ~it_dirty, !.prev = it_prev]
    /\ it_prev' = IF it_dirty THEN NoPrev ELSE [ok |-> TRUE, out |-> it_out]
    /\ it_out' = <<>>
    /\ it_dirty' = it_dirty
    /\ it_live' = {}
    /\ it_evicted' = {}
    /\ UNCHANGED <<backend, posix, rest, heap, pending, _pmap, it_items, it_cur,
                   parked, wvars, timer, early>>

\* The caller drops the generator before it is exhausted.
IterDrop ==
    /\ it_pc = "run"
    /\ it_items # <<>>
    /\ it_pc' = "idle"
    /\ it_items' = <<>>
    /\ it_live' = {}
    /\ it_evicted' = {}
    /\ it_out' = <<>>
    /\ it_prev' = NoPrev
    /\ it_dirty' = it_dirty
    /\ ret' = NoRet
    /\ UNCHANGED <<backend, posix, rest, heap, pending, _pmap, it_cur, parked,
                   wvars, timer, early>>

\* The caller holds two generators of process_iter() and turns from one to
\* the other: the one that ran is left where it stands, at a yield or not
\* advanced at all (or exhausted), and the other one is the one to advance
\* from now on.  The registry is the module's, shared by the two.
IterSwitch ==
    /\ it_pc = "idle" \/ (it_pc = "run" /\ ret.op = "yield")
    /\ parked' = [pc |-> it_pc, items |-> it_items, cur |-> it_cur,
                  live |-> it_live, evicted |-> it_evicted, out |-> it_out]
    /\ it_pc' = parked.pc
    /\ it_items' = parked.items
    /\ it_cur' = parked.cur
    /\ it_live' = parked.live
    /\ it_evicted' = parked.evicted
    /\ it_out' = parked.out
    /\ it_dirty' = TRUE
    /\ it_prev' = NoPrev
    /\ ret' = NoRet
    /\ UNCHANGED <<backend, posix, rest, heap, pending, _pmap, wvars, timer,
                   early>>

\* ------------------------------------------------------------ wait_procs

RECURSIVE Gcd(_, _)
Gcd(a, b) == IF b = 0 THEN a ELSE Gcd(b, a % b)

RECURSIVE LcmUpTo(_)
LcmUpTo(n) ==
    IF n <= 1 THEN 1
    ELSE LET l == LcmUpTo(n - 1) IN (l * n) \div Gcd(l, n)

\* The clock's resolution: ticks in the `1.0` of max_timeout, chosen so
\* that 1.0 / k is a whole number of ticks for every count k of handles.
TicksPerUnit == LcmUpTo(NProcs)

\* The handles passed as `procs`: every handle there is.
Procs == Handles

\* The `timeout` arguments tried: None, a negative one, 0, whole units.
Timeouts ==
    {NoTimeout}
    \cup {[set |-> TRUE, v |-> k * TicksPerUnit] : k \in -1..MaxTimeoutUnits}

Min(a, b) == IF a <= b THEN a ELSE b

\* max_timeout = 1.0 / (len(alive) - len(gone)), 1.0 on ZeroDivisionError
MaxTimeout(al, gn) ==
    LET d == Cardinality(al) - Cardinality(gn)
    IN  IF d = 0 THEN TicksPerUnit
        ELSE IF d > 0 THEN TicksPerUnit \div d
        ELSE 0 - (TicksPerUnit \div (0 - d))

\* Faulty variant of `alive = alive - gone`: alive is left as it is.
AliveKept(al, gn) == al

\* alive = alive - gone
AliveMinusGone(al, gn) == al \ gn

\* Process.wait raises ValueError for this timeout.
WaitRaisesValueError(t) == ~(t >= 0)

\* assert_gone, after wait() returned rc for handle i: is_running() is
\* asked, and answers True.
AskedAndRunning(i, rc) == rc = None_ /\ IsRunningVal(heap[i])

\* Faulty variant of the test of assert_gone: only a handle with an exit
\* code is recorded.
TerminatedWithCode(i, rc) == rc # None_

\* assert_gone, after wait() returned retcode rc for handle i: whether
\* the handle is recorded as gone.
Terminated(i, rc) == rc # None_ \/ ~IsRunningVal(heap[i])

\* Faulty variant of `proc.retcode = retcode`: nothing is set when there is
\* no exit code.
SetRetcodeUnlessNone(i, rc) ==
    IF rc = None_ THEN retcode ELSE [retcode EXCEPT ![i] = rc]

\* proc.retcode = retcode
SetRetcode(i, rc) == [retcode EXCEPT ![i] = rc]

\* Faulty variant of the callback's call: it comes before the handle is
\* recorded.
CallbackFirst(i, rcs, gn) == [retcode |-> Unset, gone |-> FALSE]

\* callback(proc): what the callback finds, the `retcode` attribute of
\* proc and whether proc is in `gone`.
Callback(i, rcs, gn) == [retcode |-> rcs[i], gone |-> i \in gn]

\* assert_gone, the else branch, for handle i and the value wait() returned.
AssertGoneReturned(i, rc) ==
    /\ heap' = IF rc = None_
               THEN [heap EXCEPT ![i] = IsRunningUpd(heap[i])]
               ELSE heap
    /\ IF Terminated(i, rc)
       THEN /\ retcode' = SetRetcode(i, rc)
            /\ gone' = gone \cup {i}
            /\ calls' = IF callback
                        THEN [calls EXCEPT
                                ![i] = Append(@, Callback(i, retcode', gone'))]
                        ELSE calls
       ELSE UNCHANGED <<retcode, gone, calls>>

\* wait_procs(procs, timeout, callback) up to its loop; cb: a callback is
\* passed.
WaitProcs(t, cb) ==
    /\ w_pc = "idle"
    /\ timeout0' = t
    /\ timeout' = t
    /\ callback' = cb
    /\ IF t.set /\ ~(t.v >= 0)
       THEN /\ w_pc' = "raised"
            /\ UNCHANGED <<gone, alive, deadline>>
       ELSE /\ gone' = {}
            /\ alive' = Procs
            /\ deadline' = IF t.set THEN timer + t.v ELSE 0
            /\ w_pc' = "while"
    /\ ret' = NoRet
    /\ UNCHANGED <<backend, posix, rest, heap, pending, ivars, ighost, timer, todo, cur,
                   left, retcode, early, calls, swept, lastwaits,
                   allocated>>

\* if timeout is not None and timeout <= 0: break
Break(t) == t.set /\ t.v <= 0

\* while alive: / if timeout is not None and timeout <= 0: break
WhileHead ==
    /\ w_pc = "while"
    /\ IF alive = {} \/ Break(timeout)
       THEN w_pc' = "last" /\ todo' = todo
       ELSE w_pc' = "for" /\ todo' = alive
    /\ ret' = NoRet
    /\ UNCHANGED <<backend, posix, rest, heap, pending, ivars, ighost, timer, timeout,
                   timeout0, deadline, gone, alive, cur, left, retcode,
                   early, wlog>>

\* The for loop has visited every handle: alive = alive - gone.  The sweep
\* is over.
ForEnd ==
    /\ w_pc = "for"
    /\ todo = {}
    /\ alive' = AliveMinusGone(alive, gone)
    /\ w_pc' = "while"
    /\ allocated' = 0
    /\ ret' = NoRet
    /\ UNCHANGED <<backend, posix, rest, heap, pending, ivars, ighost, timer, timeout,
                   timeout0, deadline, gone, todo, cur, left, retcode,
                   early, callback, calls, swept, lastwaits>>

\* One turn of the for loop up to the call of proc.wait(): max_timeout is
\* computed, clipped to the deadline when there is one; the loop is left
\* when nothing remains, and wait() raises for a negative timeout.
ForNext(proc) ==
    /\ w_pc = "for"
    /\ proc \in todo
    /\ LET mt == MaxTimeout(alive, gone)
           t == IF timeout.set THEN Min(deadline - timer, mt) ELSE mt
       IN  /\ timeout' = IF timeout.set THEN [set |-> TRUE, v |-> t]
                         ELSE timeout
           /\ IF timeout.set /\ t <= 0
              THEN /\ alive' = AliveMinusGone(alive, gone)
                   /\ w_pc' = "while"
                   /\ allocated' = 0
                   /\ ret' = NoRet
                   /\ UNCHANGED <<todo, cur, left, swept>>
              ELSE IF WaitRaisesValueError(t)
              THEN /\ w_pc' = "raised"
                   /\ swept' = TRUE
                   /\ allocated' = allocated + t
                   /\ ret' = [NoRet EXCEPT !.op = "assert_gone", !.h = proc,
                                           !.timeout = t,
                                           !.exc = "ValueError"]
                   /\ UNCHANGED <<alive, todo, cur, left>>
              ELSE /\ w_pc' = "waiting"
                   /\ cur' = proc
                   /\ left' = t
                   /\ todo' = todo \ {proc}
                   /\ alive' = alive
                   /\ swept' = TRUE
                   /\ allocated' = allocated + t
                   /\ ret' = [NoRet EXCEPT !.op = "assert_gone", !.h = proc,
                                           !.timeout = t]
    /\ UNCHANGED <<backend, posix, rest, heap, pending, ivars, ighost, timer, timeout0,
                   deadline, gone, retcode, early, callback, calls,
                   lastwaits>>

\* Time passes while the caller is blocked in process_wait().
Tick ==
    /\ w_pc = "waiting"
    /\ left > 0
    /\ running[heap[cur].pid]
    /\ left' = left - 1
    /\ timer' = IF timeout0.set THEN timer + 1 ELSE timer
    /\ ret' = NoRet
    /\ UNCHANGED <<backend, posix, rest, heap, pending, ivars, ighost, w_pc, timeout,
                   timeout0, deadline, gone, alive, todo, cur, retcode,
                   early, wlog>>

\* process_wait() returns: the process it waited for has exited (by the
\* time is_running() is asked its pid may belong to another).  rc is the
\* exit code, None for a process that is not a child of the caller.
WaitReturns(rc) ==
    /\ w_pc = "waiting"
    /\ Exited(heap[cur])
    /\ AssertGoneReturned(cur, rc)
    /\ w_pc' = "for"
    /\ ret' = [NoRet EXCEPT !.op = "wait", !.h = cur, !.val = TRUE,
                            !.retcode = rc,
                            !.running = AskedAndRunning(cur, rc)]
    /\ UNCHANGED <<backend, posix, rest, pending, ivars, ighost, timer, timeout, timeout0,
                   deadline, alive, todo, cur, left, early, callback, swept,
                   lastwaits, allocated>>

\* process_wait() raises TimeoutExpired, which assert_gone swallows.
WaitTimesOut ==
    /\ w_pc = "waiting"
    /\ left = 0
    /\ running[heap[cur].pid]
    /\ w_pc' = "for"
    /\ ret' = [NoRet EXCEPT !.op = "wait", !.h = cur,
                            !.exc = "TimeoutExpired"]
    /\ UNCHANGED <<backend, posix, rest, heap, pending, ivars, ighost, timer, timeout,
                   timeout0, deadline, gone, alive, todo, cur, left,
                   retcode, early, wlog>>

\* Faulty variant of the end of the loop: the function returns without its
\* last attempt.
LastHeadSkips ==
    /\ w_pc = "last"
    /\ w_pc' = "done"
    /\ ret' = NoRet
    /\ UNCHANGED <<backend, posix, rest, heap, pending, ivars, ighost, timer, timeout,
                   timeout0, deadline, gone, alive, todo, cur, left, retcode,
                   early, wlog>>

\* if alive: the last attempt starts; otherwise the function returns.
LastHead ==
    /\ w_pc = "last"
    /\ IF alive = {}
       THEN w_pc' = "done" /\ todo' = todo
       ELSE w_pc' = "lastfor" /\ todo' = alive
    /\ ret' = NoRet
    /\ UNCHANGED <<backend, posix, rest, heap, pending, ivars, ighost, timer, timeout,
                   timeout0, deadline, gone, alive, cur, left, retcode,
                   early, wlog>>

\* assert_gone(proc, 0) of the last attempt, when wait(0) returns: the
\* process it was called for has exited.
LastNext(proc, rc) ==
    /\ w_pc = "lastfor"
    /\ proc \in todo
    /\ Exited(heap[proc])
    /\ todo' = todo \ {proc}
    /\ lastwaits' = [lastwaits EXCEPT ![proc] = @ + 1]
    /\ AssertGoneReturned(proc, rc)
    /\ ret' = [NoRet EXCEPT !.op = "wait", !.h = proc, !.val = TRUE,
                            !.retcode = rc,
                            !.running = AskedAndRunning(proc, rc)]
    /\ UNCHANGED <<backend, posix, rest, pending, ivars, ighost, timer, timeout, timeout0,
                   deadline, alive, cur, left, w_pc, early, callback, swept,
                   allocated>>

\* assert_gone(proc, 0) of the last attempt, when wait(0) raises
\* TimeoutExpired: the pid is there.
LastTimesOut(proc) ==
    /\ w_pc = "lastfor"
    /\ proc \in todo
    /\ running[heap[proc].pid]
    /\ todo' = todo \ {proc}
    /\ lastwaits' = [lastwaits EXCEPT ![proc] = @ + 1]
    /\ ret' = [NoRet EXCEPT !.op = "wait", !.h = proc,
                            !.exc = "TimeoutExpired"]
    /\ UNCHANGED <<backend, posix, rest, heap, pending, ivars, ighost, timer, timeout,
                   timeout0, deadline, gone, alive, cur, left, w_pc,
                   retcode, early, callback, calls, swept, allocated>>

\* The last attempt is over: alive = alive - gone, and the return.
LastEnd ==
    /\ w_pc = "lastfor"
    /\ todo = {}
    /\ alive' = AliveMinusGone(alive, gone)
    /\ w_pc' = "done"
    /\ ret' = NoRet
    /\ UNCHANGED <<backend, posix, rest, heap, pending, ivars, ighost, timer, timeout,
                   timeout0, deadline, gone, todo, cur, left, retcode,
                   early, wlog>>

\* ------------------------------------------------------ CPU utilization
\* Times are counted in clock ticks and percentages in tenths of a percent
\* (what round(x, 1) keeps): 1000 stands for 100.0.
\*
\* The backend's counters only grow, one tick at a time: a tick is spent
\* by one CPU in one mode and, when a process ran, it is charged to that
\* process as well.

Modes == {"user", "system", "idle"}

\* "Return the number of logical CPUs in the system."
cpu_count == Len(sys_per_cpu_times)

\* sum(t) of a cpu_times namedtuple.
SumTimes(t) == t.user + t.system + t.idle

RECURSIVE SumCpus(_, _)
\* The column `mode` of the per-CPU table added up over the CPUs 1..n.
SumCpus(mode, n) ==
    IF n = 0 THEN 0 ELSE sys_per_cpu_times[n][mode] + SumCpus(mode, n - 1)

\* _psplatform.get_system_cpu_times(): the system-wide times are the
\* per-CPU times added up.
get_system_cpu_times == [mode \in Modes |-> SumCpus(mode, cpu_count)]

\* _psplatform.get_system_per_cpu_times()
get_system_per_cpu_times == sys_per_cpu_times

\* cpu_times(percpu)
cpu_times(percpu) ==
    IF percpu THEN get_system_per_cpu_times ELSE get_system_cpu_times

\* The ticks counted so far.
TotalTicks == SumTimes(get_system_cpu_times)

\* abs(x)
Abs(x) == IF x < 0 THEN 0 - x ELSE x

\* n / d rounded to the nearest whole number, a half away from zero as
\* round() does (d # 0).
Round(n, d) ==
    LET q == (2 * Abs(n) + Abs(d)) \div (2 * Abs(d))
    IN  IF (n < 0) = (d < 0) THEN q ELSE 0 - q

\* round(p, 1) of the percentage p = n / d, in tenths of a percent.
Tenths(n, d) == Round(10 * n, d)

\* One CPU spends one tick in one mode, on behalf of process p (0: of
\* nobody; an idle tick is nobody's).
CpuTick(c, mode, p) ==
    /\ TotalTicks < MaxCpuTicks
    /\ IF p = 0 THEN TRUE ELSE mode # "idle" /\ running[p]
    /\ sys_per_cpu_times' = [sys_per_cpu_times EXCEPT ![c][mode] = @ + 1]
    /\ proc_cpu_times' = IF p = 0 THEN proc_cpu_times
                         ELSE [proc_cpu_times EXCEPT ![p][mode] = @ + 1]
    /\ ret' = NoRet
    /\ UNCHANGED <<backend, posix, heap, pending, ivars, ighost, wvars,
                   timer, early, ppid, _last_cpu_times, _last_per_cpu_times,
                   _last_cpu_times_2, _last_per_cpu_times_2, c_call,
                   called>>

\* One counter of one CPU is reported one tick smaller than before (a
\* platform quirk: time does not go backwards, the report does).
CpuRegress(c, mode) ==
    /\ sys_per_cpu_times[c][mode] > 0
    /\ sys_per_cpu_times' = [sys_per_cpu_times EXCEPT ![c][mode] = @ - 1]
    /\ ret' = NoRet
    /\ UNCHANGED <<backend, posix, heap, pending, ivars, ighost, wvars,
                   timer, early, ppid, proc_cpu_times, _last_cpu_times,
                   _last_per_cpu_times, _last_cpu_times_2,
                   _last_per_cpu_times_2, c_call, called>>

\* calculate(t1, t2) of cpu_percent divides by zero: the busy time grew
\* and the total time is what it was.
cpu_percent_raises(t1, t2) ==
    LET t1_all == SumTimes(t1)
        t2_all == SumTimes(t2)
    IN  /\ t2_all - t2.idle > t1_all - t1.idle
        /\ t2_all - t1_all = 0

\* calculate(t1, t2) of cpu_percent, where it returns.  While no counter
\* decreases busy_delta > 0 makes all_delta > 0.
cpu_percent_calculate(t1, t2) ==
    LET t1_all == SumTimes(t1)
        t1_busy == t1_all - t1.idle
        t2_all == SumTimes(t2)
        t2_busy == t2_all - t2.idle
        busy_delta == t2_busy - t1_busy
        all_delta == t2_all - t1_all
    IN  IF t2_busy <= t1_busy THEN 0
        ELSE Tenths(busy_delta * 100, all_delta)

\* os.name == 'nt': the platform that is not POSIX.
WINDOWS == ~posix

\* The clamp cpu_times_percent applies to a field on Windows.
ClampNt(field_perc) ==
    IF WINDOWS /\ field_perc > 1000 THEN 1000
    ELSE IF WINDOWS /\ field_perc < 0 THEN 0
    ELSE field_perc

\* calculate(t1, t2) of cpu_times_percent: one percentage per field.
cpu_times_percent_calculate(t1, t2) ==
    LET all_delta == SumTimes(t2) - SumTimes(t1)
        field_delta(field) == t2[field] - t1[field]
        field_perc(field) ==
            IF all_delta = 0 THEN 0
            ELSE Tenths(100 * field_delta(field), all_delta)
    IN  [field \in Modes |-> ClampNt(field_perc(field))]

\* No utilization call is in progress.
NoCall ==
    [op |-> "none", h |-> 0, percpu |-> FALSE, blocking |-> FALSE,
     pc |-> "none", t1 |-> ZeroTimes, tot1 |-> <<>>, st1 |-> None_,
     pt1 |-> NoTimes, st2 |-> None_]

\* (function, percpu) as it is remembered in `called`.
Window(fn, percpu) == <<fn, IF percpu THEN 1 ELSE 0>>

\* Another utilization call may begin: none is in progress (one thread),
\* and the calls are counted up to MaxCpuCalls.
MayCall == c_call = NoCall /\ BagCardinality(called) < MaxCpuCalls

\* Faulty variant of the definition below: cpu_percent keeps its baselines
\* in the globals of cpu_times_percent as well.
CpuPercentReturnShared(percpu, t1, tot1, blocking) ==
    /\ IF ~percpu
       THEN /\ _last_cpu_times' = cpu_times(FALSE)
            /\ _last_cpu_times_2' = cpu_times(FALSE)
            /\ ret' = [NoRet EXCEPT !.op = "cpu_percent",
                         !.blocking = blocking,
                         !.pct = <<cpu_percent_calculate(t1,
                                                         cpu_times(FALSE))>>]
            /\ UNCHANGED <<_last_per_cpu_times, _last_per_cpu_times_2>>
       ELSE /\ _last_per_cpu_times' = cpu_times(TRUE)
            /\ _last_per_cpu_times_2' = cpu_times(TRUE)
            /\ ret' = [NoRet EXCEPT !.op = "cpu_percent", !.percpu = TRUE,
                         !.blocking = blocking,
                         !.pct = [c \in 1..Len(tot1) |->
                                    cpu_percent_calculate(tot1[c],
                                        cpu_times(TRUE)[c])]]
            /\ UNCHANGED <<_last_cpu_times, _last_cpu_times_2>>
    /\ called' = called (+) SetToBag({Window("cpu_percent", percpu)})
    /\ c_call' = NoCall
    /\ UNCHANGED <<backend, posix, heap, pending, ivars, ighost, wvars,
                   timer, early, ppid, sys_per_cpu_times, proc_cpu_times>>

\* cpu_percent, from the point where t1 (or tot1) is in hand: the new
\* sample becomes the baseline and is compared with t1.
CpuPercentReturn(percpu, t1, tot1, blocking) ==
    /\ IF ~percpu
       THEN /\ _last_cpu_times' = cpu_times(FALSE)
            /\ ret' = IF cpu_percent_raises(t1, cpu_times(FALSE))
                       THEN [NoRet EXCEPT !.op = "cpu_percent",
                               !.blocking = blocking,
                               !.exc = "ZeroDivisionError"]
                       ELSE [NoRet EXCEPT !.op = "cpu_percent",
                               !.blocking = blocking,
                               !.first = ~BagIn(Window("cpu_percent", percpu),
                                                called),
                               !.pct = <<cpu_percent_calculate(t1,
                                             cpu_times(FALSE))>>]
            /\ UNCHANGED _last_per_cpu_times
       ELSE /\ _last_per_cpu_times' = cpu_times(TRUE)
            /\ ret' = IF \E c \in 1..Len(tot1) :
                             cpu_percent_raises(tot1[c], cpu_times(TRUE)[c])
                       THEN [NoRet EXCEPT !.op = "cpu_percent",
                               !.percpu = TRUE, !.blocking = blocking,
                               !.exc = "ZeroDivisionError"]
                       ELSE [NoRet EXCEPT !.op = "cpu_percent",
                               !.percpu = TRUE, !.blocking = blocking,
                               !.first = ~BagIn(Window("cpu_percent", percpu),
                                                called),
                               !.pct = [c \in 1..Len(tot1) |->
                                          cpu_percent_calculate(tot1[c],
                                              cpu_times(TRUE)[c])]]
            /\ UNCHANGED _last_cpu_times
    /\ called' = called (+) SetToBag({Window("cpu_percent", percpu)})
    /\ c_call' = NoCall
    /\ UNCHANGED <<backend, posix, heap, pending, ivars, ighost, wvars,
                   timer, early, ppid, sys_per_cpu_times, proc_cpu_times,
                   _last_cpu_times_2, _last_per_cpu_times_2>>

\* cpu_percent(interval=0, percpu): the whole call.
cpu_percent(percpu) ==
    /\ MayCall
    /\ CpuPercentReturn(percpu, _last_cpu_times, _last_per_cpu_times, FALSE)

\* A blocking call takes its first sample and goes to sleep.
Sleep(fn, percpu) ==
    /\ MayCall
    /\ c_call' = [NoCall EXCEPT !.op = fn, !.percpu = percpu,
                    !.blocking = TRUE, !.pc = "sleep",
                    !.t1 = cpu_times(FALSE), !.tot1 = cpu_times(TRUE)]
    /\ ret' = NoRet
    /\ UNCHANGED <<backend, posix, heap, pending, ivars, ighost, wvars,
                   timer, early, ppid, sys_per_cpu_times, proc_cpu_times,
                   _last_cpu_times, _last_per_cpu_times, _last_cpu_times_2,
                   _last_per_cpu_times_2, called>>

\* cpu_percent(interval > 0, percpu) up to time.sleep(interval).
cpu_percent_sleep(percpu) == Sleep("cpu_percent", percpu)

\* cpu_percent(interval > 0, percpu) after time.sleep(interval).
cpu_percent_wake ==
    /\ c_call.op = "cpu_percent"
    /\ CpuPercentReturn(c_call.percpu, c_call.t1, c_call.tot1, TRUE)

\* cpu_times_percent, from the point where t1 (or tot1) is in hand.
CpuTimesPercentReturn(percpu, t1, tot1, blocking) ==
    /\ IF ~percpu
       THEN /\ _last_cpu_times_2' = cpu_times(FALSE)
            /\ ret' = [NoRet EXCEPT !.op = "cpu_times_percent",
                         !.blocking = blocking,
                         !.first = ~BagIn(Window("cpu_times_percent",
                                                 percpu), called),
                         !.fpct = <<cpu_times_percent_calculate(t1,
                                        cpu_times(FALSE))>>]
            /\ UNCHANGED _last_per_cpu_times_2
       ELSE /\ _last_per_cpu_times_2' = cpu_times(TRUE)
            /\ ret' = [NoRet EXCEPT !.op = "cpu_times_percent",
                         !.percpu = TRUE, !.blocking = blocking,
                         !.first = ~BagIn(Window("cpu_times_percent",
                                                 percpu), called),
                         !.fpct = [c \in 1..Len(tot1) |->
                                     cpu_times_percent_calculate(tot1[c],
                                         cpu_times(TRUE)[c])]]
            /\ UNCHANGED _last_cpu_times_2
    /\ called' = called (+) SetToBag({Window("cpu_times_percent",
                                               percpu)})
    /\ c_call' = NoCall
    /\ UNCHANGED <<backend, posix, heap, pending, ivars, ighost, wvars,
                   timer, early, ppid, sys_per_cpu_times, proc_cpu_times,
                   _last_cpu_times, _last_per_cpu_times>>

\* cpu_times_percent(interval=0, percpu): the whole call.
cpu_times_percent(percpu) ==
    /\ MayCall
    /\ CpuTimesPercentReturn(percpu, _last_cpu_times_2,
                             _last_per_cpu_times_2, FALSE)

\* cpu_times_percent(interval > 0, percpu) up to time.sleep(interval).
cpu_times_percent_sleep(percpu) == Sleep("cpu_times_percent", percpu)

\* cpu_times_percent(interval > 0, percpu) after time.sleep(interval).
cpu_times_percent_wake ==
    /\ c_call.op = "cpu_times_percent"
    /\ CpuTimesPercentReturn(c_call.percpu, c_call.t1, c_call.tot1, TRUE)

\* self._proc.get_cpu_times(): (user, system) of a running process.
ProcGetCpuTimes(pid) ==
    [user |-> proc_cpu_times[pid].user, system |-> proc_cpu_times[pid].system]

\* The frame of the steps of Process.get_cpu_percent.
GetCpuPercentFrame ==
    UNCHANGED <<backend, posix, pending, ivars, ighost, wvars, timer, early,
                ppid, sys_per_cpu_times, proc_cpu_times, _last_cpu_times,
                _last_per_cpu_times, _last_cpu_times_2,
                _last_per_cpu_times_2>>

\* Process.get_cpu_percent(interval) up to its first backend call:
\* st1 = sum(cpu_times()) when blocking, else the stored pair is taken
\* and st2 = sum(cpu_times()).
get_cpu_percent(i, blocking) ==
    /\ MayCall
    /\ c_call' =
         IF blocking
         THEN [NoCall EXCEPT !.op = "get_cpu_percent", !.h = i,
                 !.blocking = TRUE, !.pc = "pt1",
                 !.st1 = SumTimes(cpu_times(FALSE))]
         ELSE [NoCall EXCEPT !.op = "get_cpu_percent", !.h = i,
                 !.pc = "pt2",
                 !.st1 = heap[i]._last_sys_cpu_times,
                 !.pt1 = heap[i]._last_proc_cpu_times,
                 !.st2 = SumTimes(cpu_times(FALSE))]
    /\ ret' = NoRet
    /\ UNCHANGED <<heap, called>>
    /\ GetCpuPercentFrame

\* get_cpu_times() of the backend finds no process: NoSuchProcess leaves
\* get_cpu_percent before anything is stored.
GetCpuPercentRaises ==
    /\ c_call' = NoCall
    /\ ret' = [NoRet EXCEPT !.op = "get_cpu_percent", !.h = c_call.h,
                 !.pid = heap[c_call.h].pid, !.blocking = c_call.blocking,
                 !.exc = "NoSuchProcess"]
    /\ UNCHANGED <<heap, called>>

\* Blocking: pt1 = self._proc.get_cpu_times(), then time.sleep(interval).
get_cpu_percent_pt1 ==
    /\ c_call.op = "get_cpu_percent"
    /\ c_call.pc = "pt1"
    /\ IF running[heap[c_call.h].pid]
       THEN /\ c_call' = [c_call EXCEPT !.pc = "sleep",
                            !.pt1 = ProcGetCpuTimes(heap[c_call.h].pid)]
            /\ ret' = NoRet
            /\ UNCHANGED <<heap, called>>
       ELSE GetCpuPercentRaises
    /\ GetCpuPercentFrame

\* Blocking: st2 = sum(cpu_times()) after the sleep.
get_cpu_percent_st2 ==
    /\ c_call.op = "get_cpu_percent"
    /\ c_call.pc = "sleep"
    /\ c_call' = [c_call EXCEPT !.pc = "pt2",
                    !.st2 = SumTimes(cpu_times(FALSE))]
    /\ ret' = NoRet
    /\ UNCHANGED <<heap, called>>
    /\ GetCpuPercentFrame

\* Faulty variant of the test below: a handle is never taken to be
\* without a baseline.
NoBaselineNever(st1, pt1) == FALSE

\* `st1 is None or pt1 is None`
NoBaseline(st1, pt1) == st1 = None_ \/ pt1 = NoTimes

\* What get_cpu_percent computes from two pairs of samples.
GetCpuPercentValue(st1, pt1, st2, pt2) ==
    LET delta_proc == (pt2.user - pt1.user) + (pt2.system - pt1.system)
        delta_time == st2 - st1
    IN  IF delta_time = 0 THEN 0
        ELSE IF ~posix /\ delta_proc * 100 * cpu_count > 100 * delta_time
             THEN 1000
        ELSE Tenths(delta_proc * 100 * cpu_count, delta_time)

\* pt2 = self._proc.get_cpu_times() and the rest of get_cpu_percent.
get_cpu_percent_pt2 ==
    /\ c_call.op = "get_cpu_percent"
    /\ c_call.pc = "pt2"
    /\ IF running[heap[c_call.h].pid]
       THEN LET i == c_call.h
                pt2 == ProcGetCpuTimes(heap[i].pid)
                first == ~c_call.blocking
                         /\ NoBaseline(c_call.st1, c_call.pt1)
            IN  /\ heap' = [heap EXCEPT
                              ![i]._last_sys_cpu_times = c_call.st2,
                              ![i]._last_proc_cpu_times = pt2]
                /\ ret' = [NoRet EXCEPT !.op = "get_cpu_percent", !.h = i,
                             !.pid = heap[i].pid,
                             !.blocking = c_call.blocking,
                             !.first = ~BagIn(<<"get_cpu_percent", i>>,
                                              called),
                             !.st2 = c_call.st2,
                             !.pct = <<IF first THEN 0
                                       ELSE GetCpuPercentValue(c_call.st1,
                                              c_call.pt1, c_call.st2, pt2)>>]
                /\ called' = called (+) SetToBag({<<"get_cpu_percent", i>>})
                /\ c_call' = NoCall
       ELSE GetCpuPercentRaises
    /\ GetCpuPercentFrame

\* --------------------------------------------------------- get_children
\* Creation times are readable throughout (no AccessDenied), so every
\* handle holds the creation time of the instance it was built for.

\* A process starts another one on a free pid, later than every process
\* started before.  The backend records the parent's pid for the child and
\* goes on reporting it after the parent has exited and after that pid has
\* been given to another process (as on Windows, the platform that has
\* get_ppid_map()).
Fork(par, p, most, d) ==
    /\ ~running[p]
    /\ par # 0 => running[par]
    /\ Spawned < most
    /\ now' = now + 1
    /\ ctime' = [ctime EXCEPT ![p] = now + 1]
    /\ denied' = [denied EXCEPT ![p] = d]
    /\ running' = [running EXCEPT ![p] = TRUE]
    /\ inst' = [inst EXCEPT ![p] = @ + 1]
    /\ ppid' = [ppid EXCEPT ![p] =
                  [pid |-> par,
                   ginst |-> IF par = 0 THEN 0 ELSE inst[par]]]
    /\ it_dirty' = TRUE
    /\ it_prev' = NoPrev
    /\ ret' = NoRet
    /\ UNCHANGED <<posix, cvars, heap, pending, ivars, wvars, timer, early>>

\* table[pid] of get_children: the running processes whose recorded
\* parent pid is `pid`, in the order process_iter() yields them.  (With
\* get_ppid_map() the same pairs come from one backend call.)
Table(pid) ==
    SortedPids({q \in Pids : running[q] /\ ppid[q].pid = pid})

\* Faulty variant of the creation-time test: every candidate passes.
InTimeAlways(h, child) == TRUE

\* `self.create_time <= child.create_time`
InTime(h, child) == h.create_time <= ctime[child]

\* recursive=False: the children of h.pid that pass the creation-time test.
DirectChildren(h) ==
    LET Test(child) == InTime(h, child) IN SelectSeq(Table(h.pid), Test)

\* Faulty variant of the test below: the pid appended last is not looked
\* at.
NotInCheckpidsButLast(checkpids, child) ==
    \A j \in 1..(Len(checkpids) - 1) : checkpids[j] # child

\* `child.pid not in checkpids`
NotInCheckpids(checkpids, child) ==
    \A j \in 1..Len(checkpids) : checkpids[j] # child

RECURSIVE Descend(_, _, _, _)
\* recursive=True: `for pid in checkpids`, from the k-th pid of the list
\* on; ret is what has been appended so far.
Descend(h, checkpids, k, ret_) ==
    IF k > Len(checkpids) THEN ret_
    ELSE LET Test(child) == InTime(h, child)
             intime == SelectSeq(Table(checkpids[k]), Test)
             Unseen(child) == NotInCheckpids(checkpids, child)
             new == SelectSeq(intime, Unseen)
         IN  Descend(h, checkpids \o new, k + 1, ret_ \o intime)

RECURSIVE Checkpids(_, _, _)
\* recursive=True: the list checkpids when `for pid in checkpids` is over,
\* from the k-th pid of the list on.
Checkpids(h, checkpids, k) ==
    IF k > Len(checkpids) THEN checkpids
    ELSE LET Test(child) == InTime(h, child)
             intime == SelectSeq(Table(checkpids[k]), Test)
             Unseen(child) == NotInCheckpids(checkpids, child)
             new == SelectSeq(intime, Unseen)
         IN  Checkpids(h, checkpids \o new, k + 1)

\* What get_children returns, as the pids of the handles in the list.
Children(h, recursive) ==
    IF recursive THEN Descend(h, <<h.pid>>, 1, <<>>) ELSE DirectChildren(h)

\* self.create_time can be read: it is cached, or the backend gives it.
Readable(h) == h.create_time # None_ \/ GetCreateTime(h.pid) = "ok"

Range(seq) == {seq[k] : k \in DOMAIN seq}

\* The processes get_children puts to the creation-time test, if none of
\* the tests raises: those recorded under the pid of h and, in recursive
\* mode, under the pid of a process that passes.
Tested(h, recursive) ==
    IF recursive
    THEN UNION {Range(Table(pid)) :
                  pid \in {h.pid} \cup Range(Descend(h, <<h.pid>>, 1, <<>>))}
    ELSE Range(Table(h.pid))

\* get_children raises AccessDenied: a creation-time test is made and one
\* side of it cannot be read (only NoSuchProcess is caught).  The first
\* test fails when h has no creation time; otherwise the walk goes on as
\* long as the children's can be read.
ChildrenRaises(h, recursive) ==
    IF ~Readable(h) THEN Table(h.pid) # <<>>
    ELSE \E child \in Tested(h, recursive) : denied[child]

\* h.get_children(recursive): the wrapper's check and, when it lets the
\* call through, the method.
get_children(i, recursive) ==
    /\ pending = NoPending
    /\ heap' = [heap EXCEPT ![i] = IsRunningUpd(heap[i])]
    /\ IF GuardPasses(heap[i]) /\ ChildrenRaises(heap[i], recursive)
       THEN ret' = [NoRet EXCEPT !.op = "get_children", !.h = i,
                      !.pid = heap[i].pid, !.recursive = recursive,
                      !.exc = "AccessDenied"]
       ELSE IF GuardPasses(heap[i])
       THEN ret' = [NoRet EXCEPT !.op = "get_children", !.h = i,
                      !.pid = heap[i].pid, !.recursive = recursive,
                      !.children = Children(heap[i], recursive)]
       ELSE ret' = [NoRet EXCEPT !.op = "get_children", !.h = i,
                      !.pid = heap[i].pid, !.recursive = recursive,
                      !.exc = "NoSuchProcess"]
    /\ UNCHANGED <<backend, posix, rest, pending, ivars, ighost, wvars,
                   timer, early>>

\* The backend records, for a process, any pid as its parent's: its own
\* (as for the idle process of Windows), a pid that went to a younger
\* process, or one that closes a cycle.
ParentMaps(pids) ==
    [pids -> {[pid |-> q, ginst |-> 0] : q \in pids \cup {0}}]

\* Two moments a process may have started at.
Epochs == {0, 1}

\* ---------------------------------------------------------------- as_dict

\* Attribute names are spelled out, one character after the other, for
\* the tests that as_dict makes on them.  dir(self): a property, a
\* cached property, a getter, a private attribute, a setter and a method
\* that as_dict leaves out.
Dir ==
    {<<"p", "i", "d">>,
     <<"n", "a", "m", "e">>,
     <<"g", "e", "t", "_", "n", "i", "c", "e">>,
     <<"_", "g", "o", "n", "e">>,
     <<"s", "e", "t", "_", "n", "i", "c", "e">>,
     <<"k", "i", "l", "l">>}

\* Those of excluded_names that are in Dir, and `nice`.
excluded_names == {<<"k", "i", "l", "l">>, <<"n", "i", "c", "e">>}

\* name.startswith(prefix)
StartsWith(name, prefix) ==
    /\ Len(name) >= Len(prefix)
    /\ SubSeq(name, 1, Len(prefix)) = prefix

\* The three `continue` at the head of the loop.
Skipped(name) ==
    \/ StartsWith(name, <<"_">>)
    \/ StartsWith(name, <<"s", "e", "t", "_">>)
    \/ name \in excluded_names

\* The key an attribute is stored under: `get_` is cut off a getter's
\* name, and getcwd becomes cwd.
Key(name) ==
    IF StartsWith(name, <<"g", "e", "t">>)
    THEN IF name[4] = "_" THEN SubSeq(name, 5, Len(name))
         ELSE IF name = <<"g", "e", "t", "c", "w", "d">>
         THEN <<"c", "w", "d">>
         ELSE name
    ELSE name

\* What reading an attribute can come to: a value, or one of the
\* exceptions the backend raises.
Answers ==
    {[exc |-> "none", val |-> 1],
     [exc |-> "AccessDenied", val |-> None_],
     [exc |-> "NotImplementedError", val |-> None_],
     [exc |-> "NoSuchProcess", val |-> None_]}

\* The `ad_value` arguments tried: None and another sentinel.
AdValues == {None_, 0}

\* The `attrs` arguments tried, as sets: the empty list and the lists of
\* at most MaxAttrs names.
AttrLists == {A \in SUBSET Dir : Cardinality(A) <= MaxAttrs}

\* The attributes as_dict reads when all are asked for.
Readables == {name \in Dir : ~Skipped(name)}

\* Faulty variant of the except clauses: NotImplementedError is raised
\* again whether attributes were asked for or not.
PropagatesAlways(exc, attrs) ==
    exc \in {"NoSuchProcess", "NotImplementedError"}

\* The exception leaves as_dict: it is not caught (NoSuchProcess), or it is
\* raised again (NotImplementedError, `if attrs: raise`).
Propagates(exc, attrs) ==
    \/ exc = "NoSuchProcess"
    \/ exc = "NotImplementedError" /\ attrs # {}

RECURSIVE AsDict(_, _, _, _, _)
\* `for name in set(attrs or dir(self))` from the moment `names` is left
\* to visit, in any order a set can be iterated in: the outcomes that are
\* possible, each the exception that leaves the call and the retdict
\* returned.
AsDict(names, attrs, ad_value, outs, retdict) ==
    IF names = {} THEN {[exc |-> "none", retdict |-> retdict]}
    ELSE LET Visit(name) ==
                 IF Skipped(name)
                 THEN AsDict(names \ {name}, attrs, ad_value, outs, retdict)
                 ELSE IF Propagates(outs[name].exc, attrs)
                 THEN {[exc |-> outs[name].exc, retdict |-> <<>>]}
                 ELSE IF outs[name].exc = "AccessDenied"
                 THEN AsDict(names \ {name}, attrs, ad_value, outs,
                             (Key(name) :> ad_value) @@ retdict)
                 ELSE IF outs[name].exc = "NotImplementedError"
                 THEN AsDict(names \ {name}, attrs, ad_value, outs, retdict)
                 ELSE AsDict(names \ {name}, attrs, ad_value, outs,
                             (Key(name) :> outs[name].val) @@ retdict)
         IN  UNION {Visit(name) : name \in names}

\* h.as_dict(attrs, ad_value), while the backend answers outs[name] when
\* attribute `name` is read.  One call is followed per behaviour: a call
\* leaves nothing behind that a later call would find.
as_dict(i, attrs, ad_value, outs) ==
    /\ pending = NoPending
    /\ ret = NoRet
    /\ \E r \in AsDict(IF attrs # {} THEN attrs ELSE Dir, attrs, ad_value,
                        outs, <<>>) :
          ret' = [NoRet EXCEPT
                    !.op = "as_dict", !.h = i, !.pid = heap[i].pid,
                    !.attrs = attrs, !.ad_value = ad_value, !.outs = outs,
                    !.exc = r.exc, !.retdict = r.retdict]
    /\ UNCHANGED <<backend, posix, rest, heap, pending, ivars, ighost,
                   wvars, timer, early>>

\* Faulty variant of the test of parent: the owner of the parent pid is
\* returned whatever its age.
ParentInTimeAlways(pct, ct) == TRUE

\* `parent.create_time <= self.create_time`
ParentInTime(pct, ct) == pct <= ct

\* What the body of parent does for handle h: "parent" (the handle built
\* for the parent pid is returned), "None", or the exception raised.  The
\* parent pid 0 stands for a process outside the table (init), which is
\* there and older than any other.
ParentOutcome(h) ==
    LET pp == ppid[h.pid].pid
    IN  IF pp = 0 THEN "parent"
        ELSE IF InitRaisesNSP(pp) THEN "None"
        ELSE IF GetCreateTime(pp) = "AccessDenied" THEN "AccessDenied"
        ELSE IF ~Readable(h) THEN "AccessDenied"
        ELSE IF ParentInTime(ctime[pp], CachedProperty(h).create_time)
        THEN "parent"
        ELSE "None"

\* h.parent: the wrapper's check and, when it lets the call through, the
\* property.  ret.target is the pid read from self.ppid.
parent(i) ==
    /\ pending = NoPending
    /\ IF GuardPasses(heap[i])
       THEN /\ heap' = [heap EXCEPT ![i] = CachedProperty(heap[i])]
            /\ ret' = [NoRet EXCEPT
                         !.op = "parent", !.h = i, !.pid = heap[i].pid,
                         !.target = ppid[heap[i].pid].pid,
                         !.val = ParentOutcome(heap[i]) = "parent",
                         !.exc = IF ParentOutcome(heap[i])
                                    \in {"parent", "None"}
                                 THEN "none"
                                 ELSE ParentOutcome(heap[i])]
       ELSE /\ heap' = [heap EXCEPT ![i] = IsRunningUpd(heap[i])]
            /\ ret' = [NoRet EXCEPT
                         !.op = "parent", !.h = i, !.pid = heap[i].pid,
                         !.exc = "NoSuchProcess"]
    /\ UNCHANGED <<backend, posix, rest, pending, ivars, ighost, wvars,
                   timer, early>>

\* ------------------------------------------------------- specifications

IterIdle(pids) ==
    /\ _pmap = [p \in pids |-> 0]
    /\ it_pc = "idle"
    /\ it_items = <<>>
    /\ it_cur = <<0, 0, NoHandle>>
    /\ it_live = {}
    /\ it_evicted = {}
    /\ it_out = <<>>
    /\ parked = NoGen
    /\ it_dirty = TRUE
    /\ it_prev = NoPrev

\* The module has just been imported: _last_cpu_times = cpu_times() and
\* the three other baselines, and no utilization call made yet.
CpuImport(pids) ==
    /\ ppid = [p \in pids |-> NoParent]
    /\ sys_per_cpu_times = [c \in 1..NCpus |-> ZeroTimes]
    /\ proc_cpu_times = [p \in pids |-> [user |-> 0, system |-> 0]]
    /\ _last_cpu_times = cpu_times(FALSE)
    /\ _last_per_cpu_times = cpu_times(TRUE)
    /\ _last_cpu_times_2 = _last_cpu_times
    /\ _last_per_cpu_times_2 = _last_per_cpu_times
    /\ c_call = NoCall
    /\ called = EmptyBag

NoProcess(pids) ==
    /\ running = [p \in pids |-> FALSE]
    /\ inst = [p \in pids |-> 0]
    /\ ctime = [p \in pids |-> 0]
    /\ denied = [p \in pids |-> FALSE]
    /\ now = 0

WaitIdle(pids) ==
    /\ w_pc = "idle"
    /\ timeout = NoTimeout
    /\ timeout0 = NoTimeout
    /\ deadline = 0
    /\ timer = 0
    /\ gone = {}
    /\ alive = {}
    /\ todo = {}
    /\ cur = 0
    /\ left = 0
    /\ retcode = [p \in pids |-> Unset]
    /\ early = [p \in pids |-> FALSE]
    /\ callback = FALSE
    /\ calls = [p \in pids |-> <<>>]
    /\ swept = FALSE
    /\ lastwaits = [p \in pids |-> 0]
    /\ allocated = 0

Init ==
    /\ NoProcess(1..NPids)
    /\ posix \in BOOLEAN
    /\ heap = <<>>
    /\ ret = NoRet
    /\ pending = NoPending
    /\ IterIdle(1..NPids)
    /\ WaitIdle(1..NPids)
    /\ CpuImport(1..NPids)

Next ==
    \/ \E p \in Pids : Spawn(p, MaxSpawns)
    \/ \E p \in Pids : Exit(p)
    \/ \E p \in Pids : Construct(p, MaxCallHandles)
    \/ \E i \in Handles : IsRunning(i)
    \/ \E i \in Handles : ReadCreateTime(i)
    \/ \E i \in Handles, shape \in Shapes : GuardedCall(i, shape)
    \/ \E i \in Handles : Body(i, pending[2])

Spec == Init /\ [][Next]_vars

\* Several handles for one pid, compared with one another: they are
\* built, probed with is_running() and read.
NextEq ==
    \/ \E p \in Pids : Spawn(p, MaxSpawns)
    \/ \E p \in Pids : Exit(p)
    \/ \E p \in Pids : Construct(p, MaxHandles)
    \/ \E i \in Handles : IsRunning(i)
    \/ \E i \in Handles : ReadCreateTime(i)

SpecEq == Init /\ [][NextEq]_vars

InitIter ==
    /\ NoProcess(1..NIterPids)
    /\ posix = TRUE
    /\ heap = <<>>
    /\ ret = NoRet
    /\ pending = NoPending
    /\ IterIdle(1..NIterPids)
    /\ WaitIdle(1..NIterPids)
    /\ CpuImport(1..NIterPids)

NextIter ==
    \/ \E p \in Pids : Spawn(p, IterMaxSpawns)
    \/ \E p \in Pids : Exit(p)
    \/ IterStart
    \/ IterStep
    \/ IterAdd
    \/ IterEnd
    \/ IterDrop

SpecIter == InitIter /\ [][NextIter]_vars

\* wait_procs is called on one handle per pid, each built while its
\* process ran; no pid is reused while the call lasts.
InitWait ==
    /\ running = [p \in 1..NProcs |-> TRUE]
    /\ inst = [p \in 1..NProcs |-> 1]
    /\ ctime = [p \in 1..NProcs |-> 0]
    /\ denied = [p \in 1..NProcs |-> FALSE]
    /\ now = 0
    /\ posix = TRUE
    /\ heap = [p \in 1..NProcs |-> [pid |-> p, create_time |-> 0,
                                 gone |-> FALSE,
                                 _last_sys_cpu_times |-> None_,
                                 _last_proc_cpu_times |-> NoTimes,
                                 ginst |-> 1, pid0 |-> p, ct0 |-> 0]]
    /\ ret = NoRet
    /\ pending = NoPending
    /\ IterIdle(1..NProcs)
    /\ WaitIdle(1..NProcs)
    /\ CpuImport(1..NProcs)

NextWait ==
    \/ \E p \in Pids : Exit(p)
    \/ \E t \in Timeouts : WaitProcs(t, FALSE)
    \/ WhileHead
    \/ ForEnd
    \/ \E proc \in Procs : ForNext(proc)
    \/ Tick
    \/ \E rc \in {None_, 0} : WaitReturns(rc)
    \/ WaitTimesOut
    \/ LastHead
    \/ \E proc \in Procs, rc \in {None_, 0} : LastNext(proc, rc)
    \/ \E proc \in Procs : LastTimesOut(proc)
    \/ LastEnd

SpecWait == InitWait /\ [][NextWait]_vars

\* wait_procs is called with a callback, without a deadline or with
\* deadline 0, on one handle per pid; the creation times can all be read
\* or none of them can, and the pid of a process that exited may be given
\* to a new one while the call lasts.
InitReap ==
    /\ running = [p \in 1..NReapProcs |-> TRUE]
    /\ inst = [p \in 1..NReapProcs |-> 1]
    /\ ctime = [p \in 1..NReapProcs |-> 0]
    /\ \E d \in BOOLEAN : denied = [p \in 1..NReapProcs |-> d]
    /\ now = 0
    /\ posix = TRUE
    /\ heap = [p \in 1..NReapProcs |-> NewProcess(p)]
    /\ ret = NoRet
    /\ pending = NoPending
    /\ IterIdle(1..NReapProcs)
    /\ WaitIdle(1..NReapProcs)
    /\ CpuImport(1..NReapProcs)

\* wait_procs has been called, has not returned or raised yet, and has not
\* recorded the handle of pid p as gone: what happens to p can still
\* matter to the call.
Watched(p) == w_pc \notin {"idle", "done", "raised"} /\ p \notin gone

NextReap ==
    \/ \E p \in Pids : Watched(p) /\ Exit(p)
    \/ \E p \in Pids : Watched(p) /\ Spawn(p, NReapProcs + MaxReuses)
    \/ \E t \in {NoTimeout, [set |-> TRUE, v |-> 0]} : WaitProcs(t, TRUE)
    \/ WhileHead
    \/ ForEnd
    \/ \E proc \in Procs : ForNext(proc)
    \/ Tick
    \/ \E rc \in {None_, 0} : WaitReturns(rc)
    \/ WaitTimesOut
    \/ LastHead
    \/ \E proc \in Procs, rc \in {None_, 0} : LastNext(proc, rc)
    \/ \E proc \in Procs : LastTimesOut(proc)
    \/ LastEnd

SpecReap == InitReap /\ [][NextReap]_vars

\* The utilization calls, on a machine where one process runs at first,
\* with a handle built for it.
InitCpu ==
    /\ running = <<TRUE>>
    /\ inst = <<1>>
    /\ ctime = <<0>>
    /\ denied = <<FALSE>>
    /\ now = 0
    /\ posix \in BOOLEAN
    /\ heap = <<NewProcess(1)>>
    /\ ret = NoRet
    /\ pending = NoPending
    /\ IterIdle({1})
    /\ WaitIdle({1})
    /\ CpuImport({1})

\* Process.get_cpu_percent in both modes, next to the non-blocking
\* system-wide cpu_percent.
NextCpu ==
    \/ \E c \in 1..NCpus, mode \in Modes, p \in Pids \cup {0} :
          CpuTick(c, mode, p)
    \/ \E p \in Pids : Exit(p)
    \/ cpu_percent(FALSE)
    \/ \E i \in Handles, blocking \in BOOLEAN : get_cpu_percent(i, blocking)
    \/ get_cpu_percent_pt1
    \/ get_cpu_percent_st2
    \/ get_cpu_percent_pt2

SpecCpu == InitCpu /\ [][NextCpu]_vars

\* The two system-wide entry points used side by side, in both modes.
NextCpuBoth ==
    \/ \E c \in 1..NCpus, mode \in Modes : CpuTick(c, mode, 0)
    \/ \E percpu \in BOOLEAN : cpu_percent(percpu)
    \/ \E percpu \in BOOLEAN : cpu_percent_sleep(percpu)
    \/ cpu_percent_wake
    \/ \E percpu \in BOOLEAN : cpu_times_percent(percpu)
    \/ \E percpu \in BOOLEAN : cpu_times_percent_sleep(percpu)
    \/ cpu_times_percent_wake

SpecCpuBoth == InitCpu /\ [][NextCpuBoth]_vars

\* The ticks charged to a process so far.
ProcTicks(p) == proc_cpu_times[p].user + proc_cpu_times[p].system

\* Every utilization call, on a machine that may report a counter smaller
\* than it did before.
NextCpuQuirk ==
    \/ \E c \in 1..NCpus, mode \in Modes, p \in Pids \cup {0} :
          /\ IF p = 0 THEN TRUE ELSE ProcTicks(p) < MaxCpuTicks
          /\ CpuTick(c, mode, p)
    \/ \E c \in 1..NCpus, mode \in Modes : CpuRegress(c, mode)
    \/ \E percpu \in BOOLEAN : cpu_percent(percpu)
    \/ \E percpu \in BOOLEAN : cpu_percent_sleep(percpu)
    \/ cpu_percent_wake
    \/ \E percpu \in BOOLEAN : cpu_times_percent(percpu)
    \/ \E percpu \in BOOLEAN : cpu_times_percent_sleep(percpu)
    \/ cpu_times_percent_wake
    \/ \E i \in Handles, blocking \in BOOLEAN : get_cpu_percent(i, blocking)
    \/ get_cpu_percent_pt1
    \/ get_cpu_percent_st2
    \/ get_cpu_percent_pt2

SpecCpuQuirk == InitCpu /\ [][NextCpuQuirk]_vars

\* A tree of processes grows and loses members; a handle is built for one
\* of them and asked for its children.
InitKids ==
    /\ NoProcess(1..NKidPids)
    /\ posix = FALSE
    /\ heap = <<>>
    /\ ret = NoRet
    /\ pending = NoPending
    /\ IterIdle(1..NKidPids)
    /\ WaitIdle(1..NKidPids)
    /\ CpuImport(1..NKidPids)

NextKids ==
    \/ \E par \in Pids \cup {0}, p \in Pids :
          Fork(par, p, KidsMaxSpawns, FALSE)
    \/ \E p \in Pids : Exit(p)
    \/ \E p \in Pids : Construct(p, MaxCallHandles)
    \/ \E i \in Handles, recursive \in BOOLEAN : get_children(i, recursive)

SpecKids == InitKids /\ [][NextKids]_vars

\* The caller is a limited user: the backend answers AccessDenied for the
\* creation time of every process.
Limited == \A p \in Pids : denied[p]

\* A process, its parent and its children: the handle of one of them is
\* asked for its direct children.  The caller can read
\* the creation time of every process or of none.
InitKin ==
    /\ running = [p \in 1..NKinPids |-> FALSE]
    /\ inst = [p \in 1..NKinPids |-> 0]
    /\ ctime = [p \in 1..NKinPids |-> 0]
    /\ \E d \in BOOLEAN : denied = [p \in 1..NKinPids |-> d]
    /\ now = 0
    /\ posix = FALSE
    /\ heap = <<>>
    /\ ret = NoRet
    /\ pending = NoPending
    /\ IterIdle(1..NKinPids)
    /\ WaitIdle(1..NKinPids)
    /\ CpuImport(1..NKinPids)

NextKin ==
    \/ \E par \in Pids \cup {0}, p \in Pids :
          Fork(par, p, KinMaxSpawns, Limited)
    \/ \E p \in Pids : Exit(p)
    \/ \E p \in Pids : Construct(p, MaxCallHandles)
    \/ \E i \in Handles : get_children(i, FALSE)

SpecKin == InitKin /\ [][NextKin]_vars

\* get_children on any parent map: every pid runs a process, started at
\* one of two moments, with any pid recorded as its parent's; a handle is
\* held for pid 1.
InitMap ==
    /\ running = [p \in 1..NMapPids |-> TRUE]
    /\ inst = [p \in 1..NMapPids |-> 1]
    /\ ctime \in [1..NMapPids -> Epochs]
    /\ denied = [p \in 1..NMapPids |-> FALSE]
    /\ now = 1
    /\ posix = FALSE
    /\ heap = <<NewProcess(1)>>
    /\ ret = NoRet
    /\ pending = NoPending
    /\ IterIdle(1..NMapPids)
    /\ WaitIdle(1..NMapPids)
    /\ ppid \in ParentMaps(1..NMapPids)
    /\ sys_per_cpu_times = [c \in 1..NCpus |-> ZeroTimes]
    /\ proc_cpu_times = [p \in 1..NMapPids |-> [user |-> 0, system |-> 0]]
    /\ _last_cpu_times = cpu_times(FALSE)
    /\ _last_per_cpu_times = cpu_times(TRUE)
    /\ _last_cpu_times_2 = _last_cpu_times
    /\ _last_per_cpu_times_2 = _last_per_cpu_times
    /\ c_call = NoCall
    /\ called = EmptyBag

NextMap ==
    \/ \E p \in Pids : Exit(p)
    \/ \E i \in Handles, recursive \in BOOLEAN : get_children(i, recursive)

SpecMap == InitMap /\ [][NextMap]_vars

\* Two generators of process_iter() held by one caller, who advances one
\* or the other as it pleases; every pid runs a process at first, and the
\* processes exit one by one.
InitPair ==
    /\ running = [p \in 1..NPairPids |-> TRUE]
    /\ inst = [p \in 1..NPairPids |-> 1]
    /\ ctime = [p \in 1..NPairPids |-> 0]
    /\ denied = [p \in 1..NPairPids |-> FALSE]
    /\ now = 0
    /\ posix = TRUE
    /\ heap = <<>>
    /\ ret = NoRet
    /\ pending = NoPending
    /\ IterIdle(1..NPairPids)
    /\ WaitIdle(1..NPairPids)
    /\ CpuImport(1..NPairPids)

NextPair ==
    \/ \E p \in Pids : Exit(p)
    \/ IterStart
    \/ IterStep
    \/ IterAdd
    \/ IterEnd
    \/ IterDrop
    \/ IterSwitch

SpecPair == InitPair /\ [][NextPair]_vars

\* The same processes; the handle of one of them is asked for its parent.
NextParent ==
    \/ \E par \in Pids \cup {0}, p \in Pids :
          Fork(par, p, KinMaxSpawns, Limited)
    \/ \E p \in Pids : Exit(p)
    \/ \E p \in Pids : Construct(p, MaxCallHandles)
    \/ \E i \in Handles : parent(i)

SpecParent == InitKin /\ [][NextParent]_vars

\* as_dict is called on the handle of a running process, with every list
\* of attributes and every combination of answers from the backend.
NextDict ==
    \E i \in Handles, attrs \in AttrLists, ad_value \in AdValues,
       outs \in [Readables -> Answers] :
        as_dict(i, attrs, ad_value, outs)

SpecDict == InitCpu /\ [][NextDict]_vars

\* ------------------------------------------------------------ properties

\* The handle the last call was made on.
RetHandle == heap[ret.h]

\* is_running() has just been called on a handle whose instance had exited.
IsRunningAfterExit == ret.op = "is_running" /\ Exited(RetHandle)

\* C1 (as stated): once the process instance a handle was constructed for
\* has exited, every later is_running() on the handle returns false, also
\* after the pid has been given to a new process.
C1_IsRunningFalseAfterExit_AsStated == IsRunningAfterExit => ~ret.val

\* C1 (amended): once the process instance a handle was constructed for has
\* exited, every later is_running() on the handle returns false, also
\* after the pid has been given to a new process, provided the handle
\* cached a creation time at construction.
C1_IsRunningFalseAfterExit ==
    IsRunningAfterExit /\ RetHandle.ct0 # None_ => ~ret.val

\* C1: is_running() returned false on a handle with a cached creation time
\* whose pid is owned by a later, running instance.
C1_Witness ==
    /\ IsRunningAfterExit
    /\ RetHandle.ct0 # None_
    /\ running[ret.pid]
    /\ ~ret.val

\* Two handles built for two different instances of one pid.
SamePidOtherInstance(i, j) ==
    heap[i].pid = heap[j].pid /\ heap[i].ginst # heap[j].ginst

\* C2 (as stated): two handles constructed for two different process
\* instances that share one pid never compare equal, whatever the backend
\* reported for the creation time at each construction.
C2_ReusedPidNeverEqual_AsStated ==
    \A i, j \in Handles :
        SamePidOtherInstance(i, j) => ~ProcessEq(heap[i], heap[j])

\* C2 (amended): two handles constructed for two different process
\* instances that share one pid never compare equal, unless the backend
\* denied the creation time at the construction of the handle for the
\* earlier of the two instances.
C2_ReusedPidNeverEqual ==
    \A i, j \in Handles :
        /\ SamePidOtherInstance(i, j)
        /\ heap[i].ginst < heap[j].ginst
        /\ heap[i].ct0 # None_
        => ~ProcessEq(heap[i], heap[j])

\* C2: two handles for different instances of one pid, the creation time
\* cached at the construction of the earlier one and denied at that of
\* the later one.
C2_Witness ==
    \E i, j \in Handles :
        /\ SamePidOtherInstance(i, j)
        /\ heap[i].ginst < heap[j].ginst
        /\ heap[i].ct0 # None_
        /\ heap[j].ct0 = None_

\* The handle holds the creation time it held when it was constructed.
AsConstructed(h) == h.create_time = h.ct0

\* C3: two handles constructed for the same pid with no exit or reuse of
\* the pid between the two constructions (both for the same instance)
\* compare equal, as they were constructed.
C3_SameInstanceEqual ==
    \A i, j \in Handles :
        /\ heap[i].pid = heap[j].pid
        /\ heap[i].ginst = heap[j].ginst
        /\ AsConstructed(heap[i])
        /\ AsConstructed(heap[j])
        => ProcessEq(heap[i], heap[j])

\* C3: two distinct handles of one instance, which has exited since and
\* been found gone through one of them only.
C3_Witness ==
    \E i, j \in Handles :
        /\ i # j
        /\ heap[i].pid = heap[j].pid
        /\ heap[i].ginst = heap[j].ginst
        /\ heap[i].gone
        /\ ~heap[j].gone

\* wait_procs has returned (gone, alive).
Returned == w_pc = "done"

\* C4: wait_procs called with a deadline does not return while some input
\* handle has not been moved to gone and the remaining deadline is still
\* positive: it returns only when every process has terminated or the
\* deadline has expired.
C4_ReturnsOnlyAllGoneOrDeadline ==
    Returned /\ timeout0.set => alive = {} \/ deadline - timer <= 0

\* C5: with no deadline, wait_procs ends only by returning normally, with
\* every input handle in gone and alive empty: it does not raise, and it
\* never returns while alive is non-empty.
C5_NoDeadlineReturnsAllGone ==
    w_pc # "idle" /\ ~timeout0.set
    => /\ w_pc # "raised"
       /\ Returned => gone = Procs /\ alive = {}

\* C6: for a deadline greater than zero, every handle whose process exits
\* before the deadline is returned in gone with its exit code recorded, and
\* every handle whose process still runs at the deadline is returned in
\* alive.
C6_GoneIffExitedBeforeDeadline ==
    Returned /\ timeout0.set /\ timeout0.v > 0
    => \A proc \in Procs :
          /\ early[heap[proc].pid]
             => proc \in gone /\ retcode[proc] # Unset
          /\ deadline - timer <= 0 /\ running[heap[proc].pid]
             => proc \in alive

\* C7: whenever wait_procs returns, gone and alive are disjoint and their
\* union is the set of input handles.
C7_GoneAlivePartition ==
    Returned
    => /\ gone \cap alive = {}
       /\ gone \cup alive = Procs
       /\ Cardinality(gone) + Cardinality(alive) = Cardinality(Procs)

\* C7: wait_procs has returned some handles in gone and some in alive.
C7_Witness == Returned /\ gone # {} /\ alive # {}

\* A guarded method has just been called on a handle whose instance had
\* exited.
GuardedCallAfterExit == ret.op = "call" /\ Exited(RetHandle)

\* The call failed in the wrapper: NoSuchProcess, and no body is to run.
FailedBeforeBackend ==
    ret.exc = "NoSuchProcess" /\ ~ret.backend /\ pending = NoPending

\* C8 (as stated): parent, get_children, set_nice, set_rlimit, suspend,
\* resume, send_signal, terminate and kill, called on a handle whose
\* process has exited or whose pid has been reused, fail with NoSuchProcess
\* without the backend operation being invoked.
C8_GuardedFailBeforeBackend_AsStated ==
    GuardedCallAfterExit => FailedBeforeBackend

\* C8 (amended): parent, get_children, set_nice, set_rlimit, suspend,
\* resume, send_signal, terminate and kill, called on a handle whose
\* process has exited or whose pid has been reused, fail with NoSuchProcess
\* without the backend operation being invoked, provided the handle cached
\* a creation time at construction.
C8_GuardedFailBeforeBackend ==
    GuardedCallAfterExit /\ RetHandle.ct0 # None_
    => FailedBeforeBackend

\* C8: a guarded call failed on a handle with a cached creation time whose
\* pid is owned by a later, running instance.
C8_Witness ==
    /\ GuardedCallAfterExit
    /\ RetHandle.ct0 # None_
    /\ running[ret.pid]
    /\ FailedBeforeBackend

\* The enumeration has just dealt with a pid whose registry entry was
\* built for another instance than the one that owns the pid.
VisitedMismatch ==
    /\ ret.op \in {"yield", "skip"}
    /\ ret.stale # 0
    /\ running[ret.pid]
    /\ inst[ret.pid] # ret.was.ginst

\* A fresh handle with the pid's present creation time is yielded and
\* registered; the stale handle keeps the creation time it had.
YieldsFreshHandle ==
    /\ ret.op = "yield"
    /\ ret.h # ret.stale
    /\ ret.h = Len(heap)
    /\ heap[ret.h].create_time = ctime[ret.pid]
    /\ _pmap[ret.pid] = ret.h
    /\ heap[ret.stale].create_time = ret.was.create_time

C10_NoEntryOutsideLiveSet ==
    ret.op = "end" => \A p \in Pids : _pmap[p] # 0 => p \in ret.live

\* C10: an enumeration that evicted a pid at its start has run to
\* completion with another pid still registered.
C10_Witness ==
    /\ ret.op = "end"
    /\ ret.evicted # {}
    /\ \E p \in Pids : _pmap[p] # 0

\* An enumeration has just run to completion.
EnumerationEnded == ret.op = "end"

\* The enumeration that has just ended followed a complete one, and no
\* process started or exited since that one began.
SecondOfTwoStatic == EnumerationEnded /\ ret.prev.ok /\ ret.static

\* C11: two consecutive complete enumerations against an unchanged live
\* process set yield the same sequence of handles: for every pid the second
\* yields the very object cached by the first, and constructs none.
C11_StaticEnumerationSameHandles ==
    SecondOfTwoStatic => ret.out = ret.prev.out

\* C11: a second enumeration against an unchanged live set has ended, and
\* it yielded two handles.
C11_Witness == SecondOfTwoStatic /\ Len(ret.out) >= 2

\* The pids of a sequence of yielded handles.
OutPids(out) == {heap[out[k]].pid : k \in 1..Len(out)}

\* The handles of a sequence are in strictly ascending order of pid.
Ascending(out) ==
    \A k \in 1..(Len(out) - 1) : heap[out[k]].pid < heap[out[k + 1]].pid

\* C12: within one enumeration, handles are yielded in strictly ascending
\* pid order, every yielded pid belongs to the live pid set fetched at the
\* start of the call, and if no process appeared or vanished during the
\* call every pid of that set is yielded.
C12_AscendingWithinLiveSet ==
    /\ it_pc # "idle"
       => Ascending(it_out) /\ OutPids(it_out) \subseteq it_live
    /\ EnumerationEnded
       => /\ Ascending(ret.out)
          /\ OutPids(ret.out) \subseteq ret.live
          /\ ret.static => OutPids(ret.out) = ret.live

\* C12: an undisturbed enumeration has ended after yielding a handle it
\* constructed for a new pid before a cached handle of a larger pid.
C12_Witness ==
    /\ EnumerationEnded
    /\ ret.static
    /\ Len(ret.out) >= 2
    /\ ret.out[1] > ret.out[2]

\* C13: under any interleaving of process exits with the steps of an
\* enumeration, no step of it raises; a pid that has vanished when it is
\* probed is skipped, no handle is built for it and no registry entry is
\* left for it.
C13_VanishedPidSkipped ==
    /\ ret.op \in {"yield", "skip", "end"} => ret.exc = "none"
    /\ ret.op = "skip" => ret.h = 0 /\ _pmap[ret.pid] = 0
    /\ ret.op = "yield" /\ ret.h # ret.stale => running[ret.pid]
    /\ ret.op \in {"yield", "skip"} /\ ret.h # ret.stale /\ ~running[ret.pid]
       => ret.op = "skip"

\* C13: a pid whose cached handle was in the registry had vanished when it
\* was probed, and was skipped.
C13_Witness == ret.op = "skip" /\ ret.stale # 0 /\ _pmap[ret.pid] = 0

\* C14: a handle's pid and creation_time never change after its
\* construction has returned, under any sequence of operations on the
\* handle and any backend events, the reassignment of the pid to another
\* process included.
C14_IdentityImmutable ==
    \A i \in Handles :
        heap[i].pid = heap[i].pid0 /\ heap[i].create_time = heap[i].ct0

\* Process(pid) has just been called.
Constructed == ret.op = "Process"

\* C15: constructing a handle for a pid has exactly three outcomes: it
\* fails with NoSuchProcess when the backend reports that the pid does not
\* exist; it succeeds with creation_time left unset when the backend
\* reports AccessDenied for the creation time; otherwise it succeeds with
\* the creation time cached.  AccessDenied never makes it fail.
C15_ConstructionOutcomes ==
    Constructed
    => /\ ret.exc \in {"none", "NoSuchProcess"}
       /\ GetCreateTime(ret.pid) = "NoSuchProcess"
          => ret.exc = "NoSuchProcess" /\ ret.h = 0
       /\ GetCreateTime(ret.pid) = "AccessDenied"
          => /\ ret.exc = "none"
             /\ ret.h = Len(heap)
             /\ RetHandle.pid = ret.pid
             /\ RetHandle.create_time = None_
       /\ GetCreateTime(ret.pid) = "ok"
          => /\ ret.exc = "none"
             /\ ret.h = Len(heap)
             /\ RetHandle.pid = ret.pid
             /\ RetHandle.create_time = ctime[ret.pid]

\* C15: a handle has been constructed while the backend denied the
\* creation time.
C15_Witness ==
    Constructed /\ GetCreateTime(ret.pid) = "AccessDenied" /\ ret.h # 0

\* A utilization call has just returned a value.
UtilizationReturned ==
    /\ ret.op \in {"cpu_percent", "cpu_times_percent", "get_cpu_percent"}
    /\ ret.exc = "none"

\* Every number the call returned is 0.0.
ReturnedZero ==
    /\ \A k \in DOMAIN ret.pct : ret.pct[k] = 0
    /\ \A k \in DOMAIN ret.fpct : \A field \in Modes : ret.fpct[k][field] = 0

C17_UtilizationWithinRange ==
    UtilizationReturned /\ ~ret.blocking /\ ~ret.first
    => /\ \A k \in DOMAIN ret.pct :
            /\ ret.pct[k] >= 0
            /\ ret.pct[k] <= IF ret.op = "get_cpu_percent"
                             THEN 1000 * cpu_count ELSE 1000
       /\ \A k \in DOMAIN ret.fpct : \A field \in Modes :
            ret.fpct[k][field] >= 0 /\ ret.fpct[k][field] <= 1000

\* C18: a call to cpu_percent leaves the baselines of cpu_times_percent
\* unchanged, and a call to cpu_times_percent leaves the baselines of
\* cpu_percent unchanged.
C18_WindowsIndependent ==
    [][/\ ret'.op = "cpu_percent"
          => UNCHANGED <<_last_cpu_times_2, _last_per_cpu_times_2>>
       /\ ret'.op = "cpu_times_percent"
          => UNCHANGED <<_last_cpu_times, _last_per_cpu_times>>]_vars

\* C18: cpu_percent has returned after cpu_times_percent was called, and
\* the system-wide baselines of the two differ.
C18_Witness ==
    /\ ret.op = "cpu_percent"
    /\ BagIn(Window("cpu_times_percent", FALSE), called)
    /\ _last_cpu_times # _last_cpu_times_2

\* get_children has just returned a list.
ChildrenReturned == ret.op = "get_children" /\ ret.exc = "none"

\* The creation time of the process through which a returned process was
\* reached: the handle's own for a child of its pid, else that of the
\* process that owns the recorded parent pid.
ReachedThroughCt(child) ==
    IF ppid[child].pid = ret.pid THEN RetHandle.create_time
    ELSE ctime[ppid[child].pid]

\* C19: descendant resolution, recursive or not, never returns a process
\* whose creation time is earlier than the creation time of the parent
\* through which it was reached.
C19_NoChildOlderThanParent ==
    ChildrenReturned
    => \A k \in DOMAIN ret.children :
           ReachedThroughCt(ret.children[k]) <= ctime[ret.children[k]]

\* The process that started `child` is in the live set.
ParentLive(child) ==
    /\ running[ppid[child].pid]
    /\ inst[ppid[child].pid] = ppid[child].ginst

\* C20: in recursive mode no process is returned that is reachable only
\* through a descendant that is absent from the live set or was rejected:
\* the process that started a returned process is in the live set, and it
\* is the one the handle stands for or is returned as well.
C20_SubtreeDropped ==
    ChildrenReturned /\ ret.recursive
    => \A k \in DOMAIN ret.children :
           /\ ParentLive(ret.children[k])
           /\ \/ ppid[ret.children[k]].pid = ret.pid
              \/ \E j \in DOMAIN ret.children :
                     ret.children[j] = ppid[ret.children[k]].pid

\* The pids of the handles in the list get_children returned.
ReturnedPids == {ret.children[k] : k \in DOMAIN ret.children}

\* C21: get_children(recursive=False) returns exactly the live processes
\* whose parent pid is the pid of the handle and whose creation time is
\* not earlier than the handle's, each of them once and nothing else.
C21_DirectChildrenExact ==
    ChildrenReturned /\ ~ret.recursive
    => /\ ReturnedPids =
             {q \in Pids : /\ running[q]
                           /\ ppid[q].pid = ret.pid
                           /\ ctime[q] >= RetHandle.create_time}
       /\ Cardinality(ReturnedPids) = Len(ret.children)

\* The list was returned while a live process recorded under the pid of
\* the handle was older than the handle's process: the pid of its parent
\* has been reused.
C21_Witness ==
    /\ ChildrenReturned /\ ~ret.recursive
    /\ \E q \in Pids : /\ running[q]
                       /\ ppid[q].pid = ret.pid
                       /\ ctime[q] < RetHandle.create_time

\* C22: the callback of wait_procs is called exactly once for each handle
\* in gone, at the moment the handle is put there and after its exit code
\* has been recorded on it (the callback finds the handle in gone, with the
\* retcode it keeps), and never for a handle that is not in gone, hence
\* never for one returned in alive.
C22_CallbackOncePerGone ==
    callback
    => \A i \in Procs :
           calls[i] = IF i \in gone
                      THEN <<[retcode |-> retcode[i], gone |-> TRUE]>>
                      ELSE <<>>

\* wait_procs has returned some handles in gone, one of them without an
\* exit code, and others in alive, and the callback was called.
C22_Witness ==
    /\ Returned /\ callback
    /\ alive # {}
    /\ \E i \in gone : retcode[i] = None_ /\ Len(calls[i]) = 1

\* wait_procs was called with timeout=0.
DeadlineZero == w_pc # "idle" /\ timeout0 = [set |-> TRUE, v |-> 0]

\* C23: with deadline 0 wait_procs makes no wait in its main loop, which
\* it never enters, does not raise, and has made exactly one wait with
\* timeout 0 on every input handle when it returns (and never more than
\* one before).
C23_DeadlineZeroOneSweep ==
    DeadlineZero
    => /\ ~swept
       /\ w_pc \in {"while", "last", "lastfor", "done"}
       /\ \A i \in Procs : lastwaits[i] <= 1
       /\ Returned => \A i \in Procs : lastwaits[i] = 1

\* wait_procs(procs, 0) has returned, with a handle whose wait(0) returned
\* and a handle whose wait(0) timed out.
C23_Witness ==
    /\ DeadlineZero /\ Returned
    /\ gone # {} /\ alive # {}
    /\ \A i \in Procs : lastwaits[i] = 1

\* C24: every handle wait_procs holds in gone, hence every handle it
\* returns there, has a retcode attribute; its value may be None.
C24_GoneCarriesRetcode ==
    \A i \in gone : retcode[i] # Unset

\* wait_procs has returned a handle whose retcode is None and a handle
\* whose retcode is an exit code.
C24_Witness ==
    /\ Returned
    /\ \E i \in gone : retcode[i] = None_
    /\ \E i \in gone : retcode[i] = 0

\* The last step was a wait() of wait_procs that returned normally.
WaitReturnedNormally == ret.op = "wait" /\ ret.exc = "none"

\* C30: whenever a handle's bounded wait returns normally in wait_procs,
\* that handle is moved to gone, whatever the exit code returned.
C30_ReturnedMeansGone ==
    WaitReturnedNormally => ret.h \in gone

\* C30, amended: whenever a handle's bounded wait returns normally in
\* wait_procs, that handle is moved to gone, even when the exit code
\* returned is None, unless in that case is_running() still answers True
\* for the handle.
C30_ReturnedAndNotRunningMeansGone ==
    WaitReturnedNormally /\ ~ret.running => ret.h \in gone

\* A wait returned None for a handle whose pid had been given to another
\* process, is_running() answered False and the handle was put in gone.
C30_Witness ==
    /\ WaitReturnedNormally /\ ret.retcode = None_ /\ ~ret.running
    /\ running[heap[ret.h].pid]
    /\ ret.h \in gone

\* The last step was a turn of the main loop of wait_procs that called
\* proc.wait(): ret.timeout is the timeout it passed.
WaitCalled == ret.op = "assert_gone"

\* 1 divided by the number of handles that are in alive and not in gone,
\* clipped to what remains of the deadline when there is one.
FairShare ==
    LET share == TicksPerUnit \div Cardinality(alive \ gone)
    IN  IF timeout0.set THEN Min(deadline - timer, share) ELSE share

\* C27: in every sweep of the main loop the timeout given to a handle's
\* wait is 1 divided by the number of handles in alive and not in gone at
\* that moment, clipped to the remaining deadline when one is set.
C27_TimeoutIsFairShare ==
    WaitCalled => alive \ gone # {} /\ ret.timeout = FairShare

\* C28: wait_procs called with timeout None or a timeout that is not
\* negative never passes a negative timeout to a handle's wait and never
\* fails with the ValueError of a malformed timeout.
C28_NoNegativeTimeout ==
    ~timeout0.set \/ timeout0.v >= 0
    => /\ WaitCalled => ret.timeout >= 0 /\ ret.exc # "ValueError"
       /\ w_pc # "raised"

\* C29: the timeouts handed to the handles during one sweep of the main
\* loop add up to one time unit at most, however many handles have been
\* moved to gone during that sweep or before it.
C29_SweepWithinOneUnit ==
    w_pc \in {"for", "waiting"} => allocated <= TicksPerUnit

\* The last step was a call of parent that passed the wrapper's check, on
\* a handle whose recorded parent pid is one of the table.
ParentAsked ==
    ret.op = "parent" /\ ret.exc # "NoSuchProcess" /\ ret.target # 0

\* The parent pid of the receiver is free, or belongs to a process created
\* after the receiver's.
ParentGoneOrYounger ==
    \/ ~running[ret.target]
    \/ ctime[ret.target] > ctime[ret.pid]

\* C25: parent returns a handle for the parent pid only if the process
\* that owns it was not created after the receiver's; when the parent pid
\* is free or belongs to a younger process, parent returns None and does
\* not fail.
C25_ParentNotYounger ==
    ParentAsked
    => /\ ret.val => /\ running[ret.target]
                     /\ ctime[ret.target] <= ctime[ret.pid]
       /\ ParentGoneOrYounger => ~ret.val /\ ret.exc = "none"

\* C25, amended: as C25, except that when the parent pid belongs to a
\* younger process parent fails with AccessDenied if the creation time of
\* that process, or the receiver's own, cannot be read.
C25_ParentNotYoungerOrDenied ==
    ParentAsked
    => /\ ret.val => /\ running[ret.target]
                     /\ ctime[ret.target] <= ctime[ret.pid]
       /\ ParentGoneOrYounger
          => /\ ~ret.val
             /\ ret.exc = IF /\ running[ret.target]
                             /\ denied[ret.target] \/ ~Readable(RetHandle)
                          THEN "AccessDenied"
                          ELSE "none"

\* parent returned None because the pid of the receiver's parent belongs
\* to a younger process, whose creation time could be read.
C25_Witness ==
    /\ ParentAsked /\ ~ret.val /\ ret.exc = "none"
    /\ running[ret.target]
    /\ ctime[ret.target] > ctime[ret.pid]

\* The last step was a call of as_dict.
AsDictCalled == ret.op = "as_dict"

\* The attributes the call was to read: those asked for, or all, less the
\* names as_dict leaves out.
Asked ==
    {name \in (IF ret.attrs # {} THEN ret.attrs ELSE Dir) : ~Skipped(name)}

\* C26: as_dict stores the caller's ad_value for every attribute whose
\* read raises AccessDenied and still returns every attribute that could
\* be read, which never makes the call fail; an attribute that raises
\* NotImplementedError is left out of the result when no list of
\* attributes was passed, and makes the call fail when one was.
C26_AsDictSentinel ==
    AsDictCalled
    => /\ ret.exc = "none"
          => \A name \in Asked :
                 CASE ret.outs[name].exc = "AccessDenied" ->
                          /\ Key(name) \in DOMAIN ret.retdict
                          /\ ret.retdict[Key(name)] = ret.ad_value
                   [] ret.outs[name].exc = "none" ->
                          /\ Key(name) \in DOMAIN ret.retdict
                          /\ ret.retdict[Key(name)] = ret.outs[name].val
                   [] OTHER ->
                          /\ ret.outs[name].exc = "NotImplementedError"
                          /\ ret.attrs = {}
                          /\ Key(name) \notin DOMAIN ret.retdict
       /\ (\A name \in Asked :
               \/ ret.outs[name].exc \in {"none", "AccessDenied"}
               \/ ret.outs[name].exc = "NotImplementedError" /\ ret.attrs = {})
          => ret.exc = "none"
       /\ (\E name \in Asked :
               ret.outs[name].exc = "NotImplementedError" /\ ret.attrs # {})
          => ret.exc # "none"

\* as_dict was called without a list and has returned: one attribute was
\* read, the read of another raised AccessDenied and a third one is not
\* implemented.
C26_Witness ==
    /\ AsDictCalled /\ ret.attrs = {} /\ ret.exc = "none"
    /\ \E name \in Asked : ret.outs[name].exc = "AccessDenied"
    /\ \E name \in Asked : ret.outs[name].exc = "NotImplementedError"
    /\ \E name \in Asked : ret.outs[name].exc = "none"

\* is_running() has just returned false on a handle.
IsRunningFalse == ret.op = "is_running" /\ ~ret.val

\* C31: whenever is_running() returns false, the _gone flag of the handle
\* is true afterwards, whether the pid has vanished or belongs to another
\* process by now.
C31_FalseMarksGone == IsRunningFalse => RetHandle.gone

\* C32: the _gone flag of a handle only goes from false to true: once it
\* is true no operation resets it, and every later is_running() returns
\* false without asking the backend.
C32_GoneIsOneWay ==
    [][\A i \in Handles :
          heap[i].gone
          => /\ heap'[i].gone
             /\ ret'.op = "is_running" /\ ret'.h = i
                => ~ret'.val /\ ~ret'.backend]_vars

\* C32: is_running() has answered false, without asking the backend, on a
\* handle marked earlier whose pid is owned by a running process the
\* handle compares equal to.
C32_Witness ==
    /\ IsRunningFalse
    /\ RetHandle.gone
    /\ ~ret.backend
    /\ running[ret.pid]
    /\ ProcessEq(RetHandle, NewProcess(ret.pid))

\* The sample a system-wide call made by the next step compares the
\* counters with: the one taken before the sleep, or the stored baseline.
T1(last) == IF c_call.op = "none" THEN last ELSE c_call.t1

\* The same, per CPU.
Tot1(last) == IF c_call.op = "none" THEN last ELSE c_call.tot1

\* No time has elapsed in all between two samples.
NoTimeElapsed(t1, t2) == SumTimes(t2) - SumTimes(t1) = 0

\* cpu_percent returns 0.0 where no time has elapsed.
CpuPercentZero ==
    ret'.op = "cpu_percent"
    => IF ~ret'.percpu
       THEN NoTimeElapsed(T1(_last_cpu_times), cpu_times(FALSE))
            => ret'.exc = "none" /\ ret'.pct = <<0>>
       ELSE \A c \in 1..cpu_count :
                NoTimeElapsed(Tot1(_last_per_cpu_times)[c],
                              cpu_times(TRUE)[c])
                => ret'.exc = "none" /\ ret'.pct[c] = 0

\* cpu_times_percent returns 0.0 in every field where no time has elapsed.
CpuTimesPercentZero ==
    ret'.op = "cpu_times_percent"
    => IF ~ret'.percpu
       THEN NoTimeElapsed(T1(_last_cpu_times_2), cpu_times(FALSE))
            => /\ ret'.exc = "none"
               /\ ret'.fpct = <<[field \in Modes |-> 0]>>
       ELSE \A c \in 1..cpu_count :
                NoTimeElapsed(Tot1(_last_per_cpu_times_2)[c],
                              cpu_times(TRUE)[c])
                => /\ ret'.exc = "none"
                   /\ ret'.fpct[c] = [field \in Modes |-> 0]

\* Process.get_cpu_percent returns 0.0 where no time has elapsed between
\* the two system samples it compares.
GetCpuPercentZero ==
    /\ ret'.op = "get_cpu_percent"
    /\ c_call.pc = "pt2"
    /\ c_call.st1 # None_
    /\ c_call.st2 - c_call.st1 = 0
    => ret'.exc = "none" /\ ret'.pct = <<0>>

\* C33: both utilization forms return exactly 0.0, and never fail with a
\* division error, whenever no time has elapsed in all between the two
\* samples compared, for the whole system, a single CPU and a single
\* process, also when a counter has been reported smaller than before.
C33_ZeroElapsedGivesZero ==
    [][CpuPercentZero /\ CpuTimesPercentZero /\ GetCpuPercentZero]_vars

\* get_children(recursive=True) has just returned a list.
DescendantsReturned == ChildrenReturned /\ ret.recursive

\* No element stands twice in a list.
NoDuplicates(seq) ==
    \A j, k \in DOMAIN seq : j # k => seq[j] # seq[k]

\* C34: the recursive walk comes to an end on every parent map, also one
\* with a cycle or with a process recorded as its own parent: it expands
\* each pid at most once (so it makes no more turns than there are pids)
\* and returns each process at most once.
C34_WalkEndsEachPidOnce ==
    DescendantsReturned
    => LET checkpids == Checkpids(RetHandle, <<RetHandle.pid>>, 1)
       IN  /\ NoDuplicates(checkpids)
           /\ Len(checkpids) <= Cardinality(Pids)
           /\ NoDuplicates(ret.children)

\* C34: the recursive walk has returned every process there is, the
\* target included, on a map whose parent pids close a cycle through the
\* target.
C34_Witness ==
    /\ DescendantsReturned
    /\ ppid[RetHandle.pid].pid \notin {0, RetHandle.pid}
    /\ Len(ret.children) = Cardinality(Pids)

\* C35: get_children, recursive or not, never has the target process
\* itself in its result, also when the parent pids close a cycle through
\* the target or the target is recorded as its own parent.
C35_TargetNotReturned ==
    ChildrenReturned => RetHandle.pid \notin Range(ret.children)

\* C36: every process get_children returns, in either mode and at any
\* depth, has a creation time that is not earlier than the one the target
\* handle holds.
C36_NoneOlderThanTarget ==
    ChildrenReturned
    => \A child \in Range(ret.children) :
           RetHandle.create_time <= ctime[child]

\* C36: the recursive walk has returned a grandchild of the target and
\* left out a process recorded under the target or under a descendant
\* because it is older than the target.
C36_Witness ==
    /\ DescendantsReturned
    /\ \E child \in Range(ret.children) :
          ppid[child].pid \in Range(ret.children) \ {RetHandle.pid}
    /\ \E q \in Pids \ Range(ret.children) :
          /\ running[q]
          /\ ppid[q].pid \in Range(ret.children) \cup {RetHandle.pid}
          /\ ctime[q] < RetHandle.create_time

\* C37: every item yielded by an enumeration is a Process handle whose pid
\* is the pid being probed, never the None placeholder of a new pid, also
\* when the backend denies the creation time of a pid new to the registry.
C37_YieldsHandleOfProbedPid ==
    ret.op = "yield" => ret.h \in Handles /\ heap[ret.h].pid = ret.pid

\* C37: a pid new to the registry whose creation time the backend denies
\* has been probed, and a handle without creation time yielded for it.
C37_Witness ==
    /\ ret.op = "yield"
    /\ ret.stale = 0
    /\ GetCreateTime(ret.pid) = "AccessDenied"
    /\ ret.h \in Handles
    /\ heap[ret.h].create_time = None_

\* The loop is about to check a cached handle with is_running() while the
\* backend denies the creation time of the handle's pid.
LivenessCheckDenied ==
    /\ it_pc = "run"
    /\ it_items # <<>>
    /\ Head(it_items)[2] # 0
    /\ GetCreateTime(Head(it_items)[1]) = "AccessDenied"

\* The turn of the loop yields the cached handle as it was, leaves it in
\* the registry and the loop goes on.
YieldsCachedUnchanged ==
    LET pid == Head(it_items)[1]
        proc == Head(it_items)[2]
    IN  /\ ret'.op = "yield"
        /\ ret'.h = proc
        /\ heap'[proc] = heap[proc]
        /\ _pmap'[pid] = proc
        /\ it_pc' = "run"
        /\ it_items' = Tail(it_items)

\* C40: during an enumeration, when the liveness check of a cached handle
\* meets AccessDenied on the creation time, the call yields that cached
\* handle unchanged, keeps it in the registry and continues with the
\* remaining pids.
C40_DeniedCheckYieldsCached ==
    [][LivenessCheckDenied /\ IterStep => YieldsCachedUnchanged]_vars

\* C38: under any interleaving of process exits and pid reuse with
\* send_signal, terminate, kill, suspend and resume, the signal reaches
\* only the process instance the handle was constructed for, never another
\* process that has taken over the pid.
C38_SignalOnlyToOwnInstance ==
    [][pending[2] \in {"signal", "resend"} /\ ret'.op = "body"
       /\ ret'.target # 0
         => ret'.target = heap[ret'.h].ginst]_vars

RECURSIVE AscendingPids(_)
\* The handles of a sequence have strictly ascending pids.
AscendingPids(out) ==
    IF Len(out) < 2 THEN TRUE
    ELSE /\ heap[out[1]].pid < heap[out[2]].pid
         /\ AscendingPids(Tail(out))

\* C39: when two enumerations are advanced in any interleaving over the
\* shared registry (one may run to completion inside the loop of the
\* other), while processes exit: neither raises, each yields strictly
\* ascending pids and so no pid twice, and every key of the registry is
\* the pid of the handle it maps to.
C39_TwoEnumerationsInterleaved ==
    /\ ret.op \in {"yield", "skip", "end"} => ret.exc = "none"
    /\ AscendingPids(it_out)
    /\ AscendingPids(parked.out)
    /\ \A p \in Pids : _pmap[p] # 0 => heap[_pmap[p]].pid = p

\* C39: two enumerations are under way, each has yielded handles, and
\* the one being advanced has just skipped a pid whose process exited and
\* whose registry entry the other one had removed already.
C39_Witness ==
    /\ it_pc = "run"
    /\ parked.pc = "run"
    /\ Len(parked.out) >= 1
    /\ Len(it_out) >= 1
    /\ ret.op = "skip"
    /\ ret.stale # 0
    /\ ret.pid \in parked.evicted

====
